---- MODULE Spec2Model ----
(***************************************************************************)
(* A model of the JWT credential pool of jetbrains-ai-proxy                *)
(* (internal/balancer/jwt_balancer.go) and of the request path that feeds  *)
(* outcomes back to it (internal/jetbrains/client.go).                     *)
(*                                                                         *)
(* The pool is the struct BaseBalancer: a map from credential string to    *)
(* *TokenStatus, a strategy, a sync.RWMutex and an int64 counter.  Every   *)
(* method is modelled at the grain of its lock: taking the lock, the body, *)
(* releasing the lock.  RefreshTokens is finer: the map is replaced by an  *)
(* empty one and then filled one entry per step, as its loop does.         *)
(***************************************************************************)
EXTENDS Integers, Sequences, FiniteSets, TLC

\* ---------------------------------------------------------------- bounds
\* Longest token list handed to NewJWTBalancer / RefreshTokens.
MaxList == 2
\* Largest value of TokenStatus.ErrorCount that is explored.
MaxErrors == 2
\* Largest value of BaseBalancer.counter that is explored.
MaxCounter == 3
\* Largest reading of the clock (time.Now()) that is explored.
MaxTime == 1
\* Longest run of GetToken calls recorded for a single caller.
MaxCalls == 4
\* Bound: the longest upstream body, in lines.
MaxLines == 3
\* Bound: the most ticks of the heartbeat ticker during one translation.
MaxBeats == 1
\* Bound: the most background loops Start spawns for one HealthChecker.
MaxStarts == 2
\* Bound: the most POST /reload requests that are handled.
MaxReloads == 2

\* ------------------------------------------------------------ vocabulary
\* The credential strings that occur.
Universe == {"t1", "t2"}
\* The goroutines that call into the pool.
Procs == {"p1", "p2"}
NoProc == "none"
\* GetToken returns "" together with its error.
NoToken == ""

RoundRobin == "round_robin"
Random == "random"

VARIABLES
    tokens,      \* BaseBalancer.tokens: credential string -> TokenStatus
    counter,     \* BaseBalancer.counter
    strategy,    \* BaseBalancer.strategy
    now,         \* the reading of time.Now()
    readers,     \* goroutines holding b.mutex.RLock
    writer,      \* goroutine holding b.mutex.Lock, or NoProc
    pc,          \* where each goroutine is
    argTok,      \* the token argument of the Mark call in progress
    argList,     \* the tokens argument of the RefreshTokens call in progress
    loopIdx,     \* RefreshTokens: position of its range loop
    res,         \* GetToken: the (token, error) it is about to return
    seen,        \* GetToken: the members of its healthyTokens slice
    overlap,     \* the call in flight overlapped a RefreshTokens
    barred,      \* history: tokens whose last completed report was MarkTokenUnhealthy
    oldHealthy,  \* history: healthy keys when the running RefreshTokens took the lock
    lastKeys,    \* history: the distinct strings of the last completed token list
    initList,    \* the list NewJWTBalancer was given
    hist,        \* the tokens a single caller got from GetToken, in order
    reqTok,      \* SendJetbrainsRequest: the token GetToken gave it
    reqHdr,      \* SendJetbrainsRequest: the grazie-authenticate-jwt header it sent
    reqOutcome,  \* SendJetbrainsRequest: what the upstream call came back with
    reqRet,      \* SendJetbrainsRequest: what it returns
    afterResponseRuns, \* the resty build runs OnAfterResponse hooks on unparsed responses
    JetbrainsAiConfig, \* config.JetbrainsAiConfig: nil, or the BearerToken of the Config it points to
    BearerToken, \* the bearer string the configuration sources resolve to
    hpc,         \* where the HTTP request in progress is
    hReq,        \* the HTTP request in progress
    hReached,    \* BearerAuth called next: the request reached its route handler
    hStatus,     \* the HTTP status written to the client, 0 while none is
    hTok,        \* handleChatCompletion: the token its SendJetbrainsRequest acquired
    hUp,         \* handleChatCompletion: what its upstream call came back with
    hTranslated, \* handleChatCompletion: which SSE translator it ran on the upstream body
    hPool,       \* history: tokens and counter when the request arrived
    upstream,    \* the lines of the upstream body, in order
    mode,        \* "stream": StreamJetbrainsAISSEToClient, "buffered": ResponseJetbrainsAIToClient
    spc,         \* where the SSE translator is
    pos,         \* how many upstream lines the translator has read
    totalBufferSize,   \* StreamJetbrainsAISSEToClient.totalBufferSize
    messageCount,      \* StreamJetbrainsAISSEToClient.messageCount
    completionBuilder, \* completionBuilder / fullContent
    out,         \* the frames flushed to the client, in order
    sseRet,      \* what the translator returned
    hbDue,       \* a tick waits in heartbeat.C
    beats,       \* how many ticks the heartbeat ticker has made
    ctxDone,     \* ctx.Done() is closed
    missed,      \* history: a line was read while a tick waited in heartbeat.C
    hBody,       \* the body of the upstream response of the request: "none", "open", "closed"
    hLog,        \* what BearerAuth wrote to the log for the request, <<>> for nothing
    running,     \* HealthChecker.running
    stopChan,    \* HealthChecker.stopChan: "open" or "closed"
    hcMutex,     \* HealthChecker.mutex: "free", or "Stop" while a Stop call waits in wg.Wait
    checkInterval, \* HealthChecker.checkInterval, in seconds
    hcLoop,      \* the healthCheckLoop goroutines Start has spawned, in order
    hcFault,     \* a Stop call panicked in close(hc.stopChan)
    noop,        \* history: the last Start or Stop call returned at its running test
    probeBodyRead, \* history: a probe's Post read the body of the upstream response
    configManager, \* client.go configManager is not nil
    managerConfig, \* Manager.config
    reloadResp,  \* what the last POST /reload answered
    reloadCount, \* how many POST /reload requests were handled
    flags,       \* main: the command-line flags -p, -h, -c, -k, -s as parsed
    mainPc,      \* where main is
    mainCfg,     \* main: its local cfg, the copy GetConfig gave it
    credential,  \* a configured JWT token, as its characters
    outLines     \* what was written of the credential: who wrote it and the text

poolVars == <<tokens, counter, strategy, now>>
lockVars == <<readers, writer>>
procVars == <<pc, argTok, argList, loopIdx, res, seen, overlap>>
histVars == <<barred, oldHealthy, lastKeys, initList, hist>>
reqVars == <<reqTok, reqHdr, reqOutcome, reqRet, afterResponseRuns>>
httpVars == <<JetbrainsAiConfig, BearerToken, hpc, hReq, hReached, hStatus, hTok, hUp, hTranslated,
              hPool, hBody, hLog>>
sseVars == <<upstream, mode, spc, pos, totalBufferSize, messageCount, completionBuilder,
             out, sseRet, hbDue, beats, ctxDone, missed>>
hcVars == <<running, stopChan, hcMutex, checkInterval, hcLoop, hcFault, noop, probeBodyRead>>
adminVars ==
    <<configManager, managerConfig, reloadResp, reloadCount, flags, mainPc, mainCfg, credential,
      outLines>>
edgeVars == <<httpVars, sseVars, hcVars, adminVars>>
vars == <<poolVars, lockVars, procVars, histVars, reqVars, edgeVars>>

\* ------------------------------------------------------- pure operators
EmptyMap == [t \in {} |-> 0]

\* The set of the strings of a list.
ListSet(list) == {list[k] : k \in 1..Len(list)}

\* All lists over Universe of length at most n.
ListsUpTo(n) == UNION {[1..k -> Universe] : k \in 0..n}

\* The lists of at least one string without a repeated string.
DistinctLists(n) ==
    {l \in ListsUpTo(n) : Len(l) > 0 /\ \A a, b \in 1..Len(l) : l[a] = l[b] => a = b}

\* &TokenStatus{Token: token, Healthy: true, LastUsed: time.Now(), ErrorCount: 0}
NewStatus(t, time) ==
    [Token |-> t, Healthy |-> TRUE, LastUsed |-> time, ErrorCount |-> 0]

\* b.tokens[token] = status
MapPut(m, t, st) ==
    [k \in DOMAIN m \cup {t} |-> IF k = t THEN st ELSE m[k]]

\* The range loop of NewJWTBalancer and RefreshTokens over the first n items.
RECURSIVE FillMap(_, _, _, _)
FillMap(m, list, n, time) ==
    IF n = 0 THEN m
    ELSE MapPut(FillMap(m, list, n - 1, time), list[n], NewStatus(list[n], time))

\* NewJWTBalancer: an empty map filled from the list.
NewJWTBalancer(list, time) == FillMap(EmptyMap, list, Len(list), time)

\* GetToken with the filter "if status.Healthy" dropped.
HealthyKeysNoFilter(m) == DOMAIN m

\* The members of healthyTokens: the entries with status.Healthy.
HealthyKeys(m) == {t \in DOMAIN m : m[t].Healthy}

\* The slices a range over a Go map can build from the set S: Go leaves the
\* iteration order of a map unspecified and the runtime varies it from one loop
\* to the next, so every enumeration of S is possible.
Orders(S) ==
    {o \in [1..Cardinality(S) -> S] : \A a, b \in 1..Cardinality(S) : o[a] = o[b] => a = b}

\* atomic.AddInt64(&b.counter, 1) % int64(len(healthyTokens)), c the value after the add.
RoundRobinIndex(c, n) == c % n

\* b.rand.Intn(n): any of 0..n-1.
RandIntn(n) == 0..(n - 1)

\* atomic.AddInt64 that adds two.
AddInt64Twice(c) == c + 2

\* atomic.AddInt64(&b.counter, 1): the value after the add, in one indivisible step.
AddInt64(c) == c + 1

\* GetToken that adds to the counter before it looks at healthyTokens.
GetTokenResultsCountFirst(m, c, strat, time) ==
    LET hs == HealthyKeys(m)
        n == Cardinality(hs)
        c2 == IF strat = Random THEN c ELSE AddInt64(c)
    IN  IF n = 0
        THEN {[token |-> NoToken, err |-> TRUE, counter |-> c2, tokens |-> m, healthy |-> hs]}
        ELSE LET idxs == IF strat = Random THEN RandIntn(n) ELSE {RoundRobinIndex(c2, n)}
             IN  {[token |-> o[k + 1], err |-> FALSE, counter |-> c2,
                   tokens |-> [m EXCEPT ![o[k + 1]].LastUsed = time],
                   healthy |-> hs] : o \in Orders(hs), k \in idxs}

\* GetToken's body between RLock and RUnlock, as the set of its possible results:
\* the token and error returned, the counter and the map it leaves, and the
\* healthy entries it collected.
GetTokenResults(m, c, strat, time) ==
    LET hs == HealthyKeys(m)
        n == Cardinality(hs)
    IN  IF n = 0
        THEN {[token |-> NoToken, err |-> TRUE, counter |-> c, tokens |-> m, healthy |-> hs]}
        ELSE LET c2 == IF strat = Random THEN c ELSE AddInt64(c)
                 idxs == IF strat = Random THEN RandIntn(n) ELSE {RoundRobinIndex(c2, n)}
             IN  {[token |-> o[k + 1], err |-> FALSE, counter |-> c2,
                   tokens |-> [m EXCEPT ![o[k + 1]].LastUsed = time],
                   healthy |-> hs] : o \in Orders(hs), k \in idxs}

\* MarkTokenUnhealthy that creates an entry for a token it does not find.
MarkTokenUnhealthyInsert(m, t) ==
    IF t \in DOMAIN m
    THEN [m EXCEPT ![t].Healthy = FALSE, ![t].ErrorCount = @ + 1]
    ELSE MapPut(m, t, [Token |-> t, Healthy |-> FALSE, LastUsed |-> 0, ErrorCount |-> 1])

\* MarkTokenUnhealthy that forgets to count the error.
MarkTokenUnhealthyNoCount(m, t) ==
    IF t \in DOMAIN m THEN [m EXCEPT ![t].Healthy = FALSE] ELSE m

\* MarkTokenUnhealthy's body under the lock.
MarkTokenUnhealthy(m, t) ==
    IF t \in DOMAIN m
    THEN [m EXCEPT ![t].Healthy = FALSE, ![t].ErrorCount = @ + 1]
    ELSE m

\* MarkTokenHealthy that creates an entry for a token it does not find.
MarkTokenHealthyInsert(m, t) ==
    IF t \in DOMAIN m
    THEN [m EXCEPT ![t].Healthy = TRUE, ![t].ErrorCount = 0]
    ELSE MapPut(m, t, [Token |-> t, Healthy |-> TRUE, LastUsed |-> 0, ErrorCount |-> 0])

\* MarkTokenHealthy's body under the lock.
MarkTokenHealthy(m, t) ==
    IF t \in DOMAIN m
    THEN [m EXCEPT ![t].Healthy = TRUE, ![t].ErrorCount = 0]
    ELSE m

\* GetHealthyTokenCount and GetTotalTokenCount on the map.
GetHealthyTokenCount(m) == Cardinality({t \in DOMAIN m : m[t].Healthy})
GetTotalTokenCount(m) == Cardinality(DOMAIN m)

\* RefreshTokens that keeps the old map instead of making a new one.
RefreshKeepMap(m) == m

\* RefreshTokens: b.tokens = make(map[string]*TokenStatus)
RefreshNewMap(m) == EmptyMap

\* What the upstream call can come back with: no response at all (a transport
\* error), or a response with a status.
Statuses == {200, 401, 403, 500}
Upstream ==
    {[transportErr |-> TRUE, status |-> 0]}
        \cup {[transportErr |-> FALSE, status |-> st] : st \in Statuses}

\* The err that Post returns: the transport error, or the error of the
\* OnAfterResponse hook of RestySSEClient (status != 200) where the client runs it.
PostError(o, hook) == o.transportErr \/ (hook /\ o.status # 200)

\* SendJetbrainsRequest without its branch for status 401.
ReportDecisionNo401(o, hook) ==
    IF PostError(o, hook) THEN [mark |-> "unhealthy", ret |-> "error"]
    ELSE IF o.status = 200 THEN [mark |-> "healthy", ret |-> "response"]
    ELSE [mark |-> "none", ret |-> "response"]

\* SendJetbrainsRequest after Post: which report it makes and what it returns.
ReportDecision(o, hook) ==
    IF PostError(o, hook) THEN [mark |-> "unhealthy", ret |-> "error"]
    ELSE IF o.status = 401 THEN [mark |-> "unhealthy", ret |-> "error"]
    ELSE IF o.status = 200 THEN [mark |-> "healthy", ret |-> "response"]
    ELSE [mark |-> "none", ret |-> "response"]

\* RLock that does not wait for the writer.
CanRLockAlways == TRUE

\* sync.RWMutex: RLock is granted when no writer holds the lock.
CanRLock == writer = NoProc

\* sync.RWMutex: Lock is granted when nobody holds the lock.
CanLock == writer = NoProc /\ readers = {}

\* ------------------------------------------------------------------ Init
NoRes == [token |-> NoToken, err |-> FALSE, panic |-> FALSE]
NoOutcome == [transportErr |-> FALSE, status |-> 0]

\* config.JetbrainsAiConfig before anything is assigned to it, and when it
\* points to a Config with the given BearerToken.
Nil == [nil |-> TRUE, BearerToken |-> <<>>]
ConfigOf(b) == [nil |-> FALSE, BearerToken |-> b]

\* The SSE translator has not returned.
NoUsage == [set |-> FALSE, prompt |-> 0, completion |-> 0, total |-> 0]
NoReturn == [returned |-> FALSE, err |-> "", content |-> <<>>, finish |-> "", usage |-> NoUsage]

\* No HTTP request is in progress.
NoRequest == [auth |-> <<>>, bindErr |-> FALSE, model |-> "", messages |-> 0, stream |-> FALSE]
NoPool == [tokens |-> EmptyMap, counter |-> 0]
HttpQuiet ==
    /\ hpc = "idle"
    /\ hReq = NoRequest
    /\ hReached = FALSE
    /\ hStatus = 0
    /\ hTok = NoToken
    /\ hUp = NoOutcome
    /\ hTranslated = "none"
    /\ hPool = NoPool
    /\ hBody = "none"
    /\ hLog = <<>>

\* The HTTP server is left out: no request ever arrives.
HttpIdle ==
    /\ JetbrainsAiConfig = Nil
    /\ BearerToken = <<>>
    /\ HttpQuiet

\* The locals of a translator as it enters its loop.
SSEQuiet ==
    /\ pos = 0
    /\ totalBufferSize = 0
    /\ messageCount = 0
    /\ completionBuilder = <<>>
    /\ out = <<>>
    /\ sseRet = NoReturn
    /\ hbDue = FALSE
    /\ beats = 0
    /\ ctxDone = FALSE
    /\ missed = FALSE

\* The SSE translator is left out: it is never called.
SSEIdle ==
    /\ upstream = <<>>
    /\ mode = "stream"
    /\ spc = "idle"
    /\ SSEQuiet

\* A healthCheckLoop that was not spawned, and the state of one credential's
\* checkTokenHealth as it starts.
NoLoop == [pc |-> "none", ticker |-> 0, checks |-> EmptyMap]
NewCheck == [tries |-> 0, ok |-> FALSE, answered |-> 0, reported |-> "none"]

\* NewHealthChecker: checkInterval 30 s, stopChan made, not running.
DefaultInterval == 30
NewHealthChecker ==
    /\ running = FALSE
    /\ stopChan = "open"
    /\ hcMutex = "free"
    /\ checkInterval = DefaultInterval
    /\ hcLoop = [l \in 1..MaxStarts |-> NoLoop]
    /\ hcFault = FALSE
    /\ noop = "none"
    /\ probeBodyRead = FALSE

\* The health checker is left out: it is never started.
HcIdle == NewHealthChecker

\* NewManager's defaults, without tokens; and no /reload answered yet.
DefaultPort == 8080
DefaultHost == "0.0.0.0"
NewManager ==
    [tokens |-> <<>>, bearer |-> <<>>, strategy |-> RoundRobin, interval |-> DefaultInterval,
     port |-> DefaultPort, host |-> DefaultHost]
NoResponse == [status |-> 0, body |-> ""]

\* flag.Parse() without arguments: every flag at its default.
NoFlags == [p |-> 0, h |-> "", c |-> <<>>, k |-> <<>>, s |-> ""]

\* main is left out: the server is taken as started.
MainIdle ==
    /\ flags = NoFlags
    /\ mainPc = "none"
    /\ mainCfg = NewManager

\* The summary and the log lines that show tokens are left out.
OutIdle ==
    /\ credential = <<>>
    /\ outLines = {}

\* The management endpoints are left out: no reload is ever asked for.
AdminIdle ==
    /\ configManager = FALSE
    /\ managerConfig = NewManager
    /\ reloadResp = NoResponse
    /\ reloadCount = 0
    /\ MainIdle
    /\ OutIdle

InitProcs ==
    /\ pc = [p \in Procs |-> "idle"]
    /\ argTok = [p \in Procs |-> NoToken]
    /\ argList = [p \in Procs |-> <<>>]
    /\ loopIdx = [p \in Procs |-> 0]
    /\ res = [p \in Procs |-> NoRes]
    /\ seen = [p \in Procs |-> {}]
    /\ overlap = [p \in Procs |-> FALSE]
    /\ reqTok = [p \in Procs |-> NoToken]
    /\ reqHdr = [p \in Procs |-> NoToken]
    /\ reqOutcome = [p \in Procs |-> NoOutcome]
    /\ reqRet = [p \in Procs |-> "none"]

\* The pool as NewJWTBalancer left it at time 0, for any list and either strategy;
\* the calls are made later.
Init ==
    /\ \E list \in ListsUpTo(MaxList) :
          /\ tokens = NewJWTBalancer(list, 0)
          /\ initList = list
          /\ lastKeys = ListSet(list)
    /\ counter = 0
    /\ strategy \in {RoundRobin, Random}
    /\ now = MaxTime
    /\ readers = {}
    /\ writer = NoProc
    /\ InitProcs
    /\ barred = {}
    /\ oldHealthy = {}
    /\ hist = <<>>
    /\ afterResponseRuns = FALSE
    /\ HttpIdle
    /\ SSEIdle
    /\ HcIdle
    /\ AdminIdle

\* ------------------------------------------------------------- GetToken
\* A RefreshTokens call holds the write lock.
Refreshing == writer \in Procs /\ pc[writer] \in {"rf_locked", "rf_loop"}

GetTokenCall(p) ==
    /\ pc[p] = "idle"
    /\ pc' = [pc EXCEPT ![p] = "gt_call"]
    /\ overlap' = [overlap EXCEPT ![p] = Refreshing]
    /\ UNCHANGED <<poolVars, lockVars, argTok, argList, loopIdx, res, seen, histVars, reqVars, edgeVars>>

GetTokenRLock(p) ==
    /\ pc[p] = "gt_call"
    /\ CanRLock
    /\ readers' = readers \cup {p}
    /\ pc' = [pc EXCEPT ![p] = "gt_locked"]
    /\ UNCHANGED <<poolVars, writer, argTok, argList, loopIdx, res, seen, overlap, histVars, reqVars, edgeVars>>

GetTokenBody(p) ==
    /\ pc[p] = "gt_locked"
    /\ \E r \in GetTokenResults(tokens, counter, strategy, now) :
          /\ r.counter <= MaxCounter
          /\ tokens' = r.tokens
          /\ counter' = r.counter
          /\ res' = [res EXCEPT ![p] = [token |-> r.token, err |-> r.err, panic |-> FALSE]]
          /\ seen' = [seen EXCEPT ![p] = r.healthy]
    /\ pc' = [pc EXCEPT ![p] = "gt_done"]
    /\ UNCHANGED <<strategy, now, lockVars, argTok, argList, loopIdx, overlap, histVars, reqVars, edgeVars>>

\* Another goroutine is inside GetToken's read-locked section and has its call of
\* b.rand.Intn still to make: the read lock is shared and *rand.Rand is not safe
\* for concurrent use, so the two calls can run at once on the same generator.
RandRace(p) == \E q \in Procs \ {p} : pc[q] = "gt_locked"

\* The random case with the generator used by two goroutines at once: besides
\* returning an index, the racing b.rand.Intn can fault (index out of range
\* in the generator's state), and GetToken then panics and returns nothing.
GetTokenPanic(p) ==
    /\ pc[p] = "gt_locked"
    /\ strategy = Random
    /\ HealthyKeys(tokens) # {}
    /\ RandRace(p)
    /\ res' = [res EXCEPT ![p] = [token |-> NoToken, err |-> FALSE, panic |-> TRUE]]
    /\ seen' = [seen EXCEPT ![p] = HealthyKeys(tokens)]
    /\ pc' = [pc EXCEPT ![p] = "gt_done"]
    /\ UNCHANGED <<poolVars, lockVars, argTok, argList, loopIdx, overlap, histVars, reqVars, edgeVars>>

\* The deferred b.mutex.RUnlock(), on return and on panic alike.
GetTokenRUnlock(p) ==
    /\ pc[p] = "gt_done"
    /\ readers' = readers \ {p}
    /\ pc' = [pc EXCEPT ![p] = "idle"]
    /\ res' = [res EXCEPT ![p] = NoRes]
    /\ seen' = [seen EXCEPT ![p] = {}]
    /\ overlap' = [overlap EXCEPT ![p] = FALSE]
    /\ UNCHANGED <<poolVars, writer, argTok, argList, loopIdx, histVars, reqVars, edgeVars>>

\* --------------------------------------------------- MarkTokenUnhealthy
MarkUnhealthyLock(p) ==
    /\ pc[p] = "idle"
    /\ CanLock
    /\ \E t \in Universe :
          /\ t \in DOMAIN tokens => tokens[t].ErrorCount < MaxErrors
          /\ argTok' = [argTok EXCEPT ![p] = t]
    /\ writer' = p
    /\ pc' = [pc EXCEPT ![p] = "mu_locked"]
    /\ UNCHANGED <<poolVars, readers, argList, loopIdx, res, seen, overlap, histVars, reqVars, edgeVars>>

MarkUnhealthyBody(p) ==
    /\ pc[p] = "mu_locked"
    /\ tokens' = MarkTokenUnhealthy(tokens, argTok[p])
    /\ pc' = [pc EXCEPT ![p] = "mu_done"]
    /\ UNCHANGED <<counter, strategy, now, lockVars, argTok, argList, loopIdx, res, seen, overlap, histVars, reqVars, edgeVars>>

MarkUnhealthyUnlock(p) ==
    /\ pc[p] = "mu_done"
    /\ writer' = NoProc
    /\ barred' = barred \cup {argTok[p]}
    /\ argTok' = [argTok EXCEPT ![p] = NoToken]
    /\ pc' = [pc EXCEPT ![p] = "idle"]
    /\ UNCHANGED <<poolVars, readers, argList, loopIdx, res, seen, overlap, oldHealthy, lastKeys, initList, hist, reqVars, edgeVars>>

\* ----------------------------------------------------- MarkTokenHealthy
MarkHealthyLock(p) ==
    /\ pc[p] = "idle"
    /\ CanLock
    /\ \E t \in Universe : argTok' = [argTok EXCEPT ![p] = t]
    /\ writer' = p
    /\ pc' = [pc EXCEPT ![p] = "mh_locked"]
    /\ UNCHANGED <<poolVars, readers, argList, loopIdx, res, seen, overlap, histVars, reqVars, edgeVars>>

MarkHealthyBody(p) ==
    /\ pc[p] = "mh_locked"
    /\ tokens' = MarkTokenHealthy(tokens, argTok[p])
    /\ pc' = [pc EXCEPT ![p] = "mh_done"]
    /\ UNCHANGED <<counter, strategy, now, lockVars, argTok, argList, loopIdx, res, seen, overlap, histVars, reqVars, edgeVars>>

MarkHealthyUnlock(p) ==
    /\ pc[p] = "mh_done"
    /\ writer' = NoProc
    /\ barred' = barred \ {argTok[p]}
    /\ argTok' = [argTok EXCEPT ![p] = NoToken]
    /\ pc' = [pc EXCEPT ![p] = "idle"]
    /\ UNCHANGED <<poolVars, readers, argList, loopIdx, res, seen, overlap, oldHealthy, lastKeys, initList, hist, reqVars, edgeVars>>

\* -------------------------------------------------------- RefreshTokens
RefreshLock(p) ==
    /\ pc[p] = "idle"
    /\ CanLock
    /\ \E list \in ListsUpTo(MaxList) : argList' = [argList EXCEPT ![p] = list]
    /\ writer' = p
    /\ oldHealthy' = HealthyKeys(tokens)
    /\ pc' = [pc EXCEPT ![p] = "rf_locked"]
    /\ UNCHANGED <<poolVars, readers, argTok, loopIdx, res, seen, overlap, barred, lastKeys, initList, hist, reqVars, edgeVars>>

RefreshClear(p) ==
    /\ pc[p] = "rf_locked"
    /\ tokens' = RefreshNewMap(tokens)
    /\ loopIdx' = [loopIdx EXCEPT ![p] = 1]
    /\ pc' = [pc EXCEPT ![p] = "rf_loop"]
    /\ UNCHANGED <<counter, strategy, now, lockVars, argTok, argList, res, seen, overlap, histVars, reqVars, edgeVars>>

RefreshAdd(p) ==
    /\ pc[p] = "rf_loop"
    /\ loopIdx[p] <= Len(argList[p])
    /\ tokens' = MapPut(tokens, argList[p][loopIdx[p]], NewStatus(argList[p][loopIdx[p]], now))
    /\ loopIdx' = [loopIdx EXCEPT ![p] = @ + 1]
    /\ UNCHANGED <<counter, strategy, now, lockVars, pc, argTok, argList, res, seen, overlap, histVars, reqVars, edgeVars>>

RefreshUnlock(p) ==
    /\ pc[p] = "rf_loop"
    /\ loopIdx[p] > Len(argList[p])
    /\ writer' = NoProc
    /\ barred' = barred \ ListSet(argList[p])
    /\ lastKeys' = ListSet(argList[p])
    /\ oldHealthy' = {}
    /\ argList' = [argList EXCEPT ![p] = <<>>]
    /\ loopIdx' = [loopIdx EXCEPT ![p] = 0]
    /\ pc' = [pc EXCEPT ![p] = "idle"]
    /\ UNCHANGED <<poolVars, readers, argTok, res, seen, overlap, initList, hist, reqVars, edgeVars>>

\* ---------------------------------------------------------------- clock
\* Time passes: later calls of time.Now() read a later time.
Tick ==
    /\ now < MaxTime
    /\ now' = now + 1
    /\ UNCHANGED <<tokens, counter, strategy, lockVars, procVars, histVars, reqVars, edgeVars>>

\* ------------------------------------------------------------------ Next
\* The calls of two goroutines on one pool, interleaved at the grain of the lock.
\* The clock stands still here, at a later time than the pool was built at:
\* LastUsed is never read, so how far the clock has moved decides nothing.
Next ==
    \E p \in Procs :
        \/ GetTokenCall(p)
        \/ GetTokenRLock(p)
        \/ GetTokenBody(p)
        \/ GetTokenPanic(p)
        \/ GetTokenRUnlock(p)
        \/ MarkUnhealthyLock(p)
        \/ MarkUnhealthyBody(p)
        \/ MarkUnhealthyUnlock(p)
        \/ MarkHealthyLock(p)
        \/ MarkHealthyBody(p)
        \/ MarkHealthyUnlock(p)
        \/ RefreshLock(p)
        \/ RefreshClear(p)
        \/ RefreshAdd(p)
        \/ RefreshUnlock(p)

Spec == Init /\ [][Next]_vars

\* ------------------------------------------------- a single caller, in turn
\* A round-robin pool as NewJWTBalancer leaves it for a list [t1, ..., tn].
InitRR ==
    /\ \E list \in DistinctLists(MaxList) :
          /\ tokens = NewJWTBalancer(list, 0)
          /\ initList = list
          /\ lastKeys = ListSet(list)
    /\ counter = 0
    /\ strategy = RoundRobin
    /\ now = 0
    /\ readers = {}
    /\ writer = NoProc
    /\ InitProcs
    /\ barred = {}
    /\ oldHealthy = {}
    /\ hist = <<>>
    /\ afterResponseRuns = FALSE
    /\ HttpIdle
    /\ SSEIdle
    /\ HcIdle
    /\ AdminIdle

\* One whole GetToken call of the single caller: RLock, body, RUnlock.
Acquire ==
    /\ Len(hist) < MaxCalls
    /\ CanRLock
    /\ \E r \in GetTokenResults(tokens, counter, strategy, now) :
          /\ tokens' = r.tokens
          /\ counter' = r.counter
          /\ hist' = Append(hist, r.token)
    /\ UNCHANGED <<strategy, now, lockVars, procVars, barred, oldHealthy, lastKeys, initList, reqVars, edgeVars>>

NextRR == Tick \/ Acquire

SpecRR == InitRR /\ [][NextRR]_vars

\* ------------------------------------------------- SendJetbrainsRequest
\* The pool as InitializeFromConfig left it at time 0: it refuses an empty token
\* list. The configured tokens are taken to be distinct.
InitReq ==
    /\ \E list \in DistinctLists(MaxList) :
          /\ tokens = NewJWTBalancer(list, 0)
          /\ initList = list
          /\ lastKeys = ListSet(list)
    /\ counter = 0
    /\ strategy \in {RoundRobin, Random}
    /\ now = MaxTime
    /\ readers = {}
    /\ writer = NoProc
    /\ InitProcs
    /\ barred = {}
    /\ oldHealthy = {}
    /\ hist = <<>>
    /\ afterResponseRuns \in BOOLEAN
    /\ HttpIdle
    /\ SSEIdle
    /\ HcIdle
    /\ AdminIdle

\* token, err := jwtBalancer.GetToken(), and the return when it fails.
RequestAcquire(p) ==
    /\ pc[p] = "idle"
    /\ CanRLock
    /\ \E r \in GetTokenResults(tokens, counter, strategy, now) :
          /\ r.counter <= MaxCounter
          /\ tokens' = r.tokens
          /\ counter' = r.counter
          /\ reqTok' = [reqTok EXCEPT ![p] = r.token]
          /\ pc' = [pc EXCEPT ![p] = IF r.err THEN "rq_ret" ELSE "rq_got"]
          /\ reqRet' = [reqRet EXCEPT ![p] = IF r.err THEN "error" ELSE "none"]
    /\ UNCHANGED <<strategy, now, lockVars, argTok, argList, loopIdx, res, seen, overlap,
                   histVars, reqHdr, reqOutcome, afterResponseRuns, edgeVars>>

\* RestySSEClient.R().SetHeader(types.JwtTokenKey, token)...Post(types.ChatStreamV7)
RequestPost(p) ==
    /\ pc[p] = "rq_got"
    /\ reqHdr' = [reqHdr EXCEPT ![p] = reqTok[p]]
    /\ \E o \in Upstream : reqOutcome' = [reqOutcome EXCEPT ![p] = o]
    /\ pc' = [pc EXCEPT ![p] = "rq_answered"]
    /\ UNCHANGED <<poolVars, lockVars, argTok, argList, loopIdx, res, seen, overlap,
                   histVars, reqTok, reqRet, afterResponseRuns, edgeVars>>

\* The report to the pool (one whole Mark call) and the value returned.
RequestReport(p) ==
    /\ pc[p] = "rq_answered"
    /\ LET d == ReportDecision(reqOutcome[p], afterResponseRuns)
           c == reqTok[p]
       IN  /\ d.mark # "none" => CanLock
           /\ d.mark = "unhealthy" /\ c \in DOMAIN tokens => tokens[c].ErrorCount < MaxErrors
           /\ tokens' = CASE d.mark = "unhealthy" -> MarkTokenUnhealthy(tokens, c)
                          [] d.mark = "healthy" -> MarkTokenHealthy(tokens, c)
                          [] OTHER -> tokens
           /\ barred' = CASE d.mark = "unhealthy" -> barred \cup {c}
                          [] d.mark = "healthy" -> barred \ {c}
                          [] OTHER -> barred
           /\ reqRet' = [reqRet EXCEPT ![p] = d.ret]
    /\ pc' = [pc EXCEPT ![p] = "rq_ret"]
    /\ UNCHANGED <<counter, strategy, now, lockVars, argTok, argList, loopIdx, res, seen,
                   overlap, oldHealthy, lastKeys, initList, hist, reqTok, reqHdr,
                   reqOutcome, afterResponseRuns, edgeVars>>

\* SendJetbrainsRequest has returned; the goroutine is free for the next request.
RequestReturn(p) ==
    /\ pc[p] = "rq_ret"
    /\ pc' = [pc EXCEPT ![p] = "idle"]
    /\ reqTok' = [reqTok EXCEPT ![p] = NoToken]
    /\ reqHdr' = [reqHdr EXCEPT ![p] = NoToken]
    /\ reqOutcome' = [reqOutcome EXCEPT ![p] = NoOutcome]
    /\ reqRet' = [reqRet EXCEPT ![p] = "none"]
    /\ overlap' = [overlap EXCEPT ![p] = FALSE]
    /\ UNCHANGED <<poolVars, lockVars, argTok, argList, loopIdx, res, seen,
                   histVars, afterResponseRuns, edgeVars>>

\* The request holds a token it acquired and has not reported on yet.
InFlight(p) == pc[p] \in {"rq_got", "rq_answered"}

\* ReloadConfig: one whole RefreshTokens call with the reloaded, non-empty list.
\* The requests in flight hold tokens of the pool it replaces.
Reload ==
    /\ CanLock
    /\ \E list \in DistinctLists(MaxList) :
          /\ tokens' = FillMap(RefreshNewMap(tokens), list, Len(list), now)
          /\ barred' = barred \ ListSet(list)
          /\ lastKeys' = ListSet(list)
    /\ overlap' = [p \in Procs |-> overlap[p] \/ InFlight(p)]
    /\ UNCHANGED <<counter, strategy, now, lockVars, pc, argTok, argList, loopIdx, res, seen,
                   oldHealthy, initList, hist, reqVars, edgeVars>>

\* The requests of two goroutines and reloads, interleaved; the clock stands still.
NextReq ==
    \/ Reload
    \/ \E p \in Procs :
          \/ RequestAcquire(p)
          \/ RequestPost(p)
          \/ RequestReport(p)
          \/ RequestReturn(p)

SpecReq == InitReq /\ [][NextReq]_vars

\* =============================================================== claims
\* C3: in a round-robin pool of n healthy credentials, any n consecutive Acquire
\* calls of the single caller return each of the n credentials exactly once.
C3_EachOnce ==
    LET n == Cardinality(DOMAIN tokens)
    IN  \A i \in 1..Len(hist) :
            i + n - 1 <= Len(hist) => {hist[k] : k \in i..(i + n - 1)} = DOMAIN tokens

\* C4: a round-robin pool built from [t1, ..., tn] returns t1, t2, ..., tn, t1, ...
\* on the successive Acquire calls of the single caller.
C4_ConstructionOrder ==
    \A k \in 1..Len(hist) : hist[k] = initList[((k - 1) % Len(initList)) + 1]

\* A GetToken that holds the read lock with its result chosen.
Selected(p) == pc[p] = "gt_done" /\ ~res[p].err /\ ~res[p].panic

\* C1: every successful Acquire returns a credential that is in the pool and healthy
\* when it is selected; the slice it selects from holds exactly the pool's
\* credentials whose last completed report was not ReportUnhealthy (a Refresh
\* that contains the credential clears the report), so a credential reported
\* unhealthy is not returned and one reported healthy again is eligible.
C1_AcquireHealthy ==
    \A p \in Procs :
        /\ Selected(p) =>
              /\ res[p].token \in DOMAIN tokens
              /\ tokens[res[p].token].Healthy
              /\ res[p].token \notin barred
        /\ pc[p] = "gt_done" => seen[p] = DOMAIN tokens \ barred

\* A successful Acquire while another credential of the pool is reported unhealthy.
C1_Witness ==
    \E p \in Procs : Selected(p) /\ (DOMAIN tokens \cap barred) # {}

\* C2: an Acquire that finds no healthy credential (the empty pool included) returns
\* the error and no credential, and leaves the map and the counter as they were.
C2_StarvationStep ==
    \A p \in Procs :
        (pc[p] = "gt_locked" /\ pc'[p] = "gt_done" /\ HealthyKeys(tokens) = {}) =>
            /\ res'[p] = [token |-> NoToken, err |-> TRUE, panic |-> FALSE]
            /\ tokens' = tokens
            /\ counter' = counter

C2_Starvation == [][C2_StarvationStep]_vars

\* An Acquire that failed on a pool whose credentials are all unhealthy, after
\* earlier round-robin acquisitions moved the counter.
C2_Witness ==
    \E p \in Procs :
        /\ pc[p] = "gt_done" /\ res[p].err /\ res[p].token = NoToken
        /\ DOMAIN tokens # {} /\ HealthyKeys(tokens) = {}
        /\ counter > 0

\* C5: under the random policy an Acquire on a pool with a healthy credential
\* returns a credential of the pool that is healthy, and every healthy
\* credential is a possible result of it.
C5_Random ==
    strategy = Random =>
        \A p \in Procs :
            /\ (pc[p] = "gt_done" /\ HealthyKeys(tokens) # {}) =>
                  Selected(p) /\ res[p].token \in HealthyKeys(tokens)
            /\ pc[p] = "gt_locked" =>
                  \A c \in HealthyKeys(tokens) :
                      ENABLED (GetTokenBody(p) /\ res'[p].token = c)

\* C6: on a credential of the pool, ReportUnhealthy clears the healthy flag and adds
\* one to the error counter, ReportHealthy sets the flag and zeroes the counter;
\* the other credentials and the key set stay, and the healthy count moves by
\* one exactly when the flag changes.
C6_ReportStep ==
    \A p \in Procs :
        LET c == argTok[p]
            was == IF tokens[c].Healthy THEN 1 ELSE 0
        IN  /\ (pc[p] = "mu_locked" /\ pc'[p] = "mu_done" /\ c \in DOMAIN tokens) =>
                  /\ DOMAIN tokens' = DOMAIN tokens
                  /\ tokens'[c].Healthy = FALSE
                  /\ tokens'[c].ErrorCount = tokens[c].ErrorCount + 1
                  /\ \A t \in DOMAIN tokens \ {c} : tokens'[t] = tokens[t]
                  /\ GetHealthyTokenCount(tokens') = GetHealthyTokenCount(tokens) - was
            /\ (pc[p] = "mh_locked" /\ pc'[p] = "mh_done" /\ c \in DOMAIN tokens) =>
                  /\ DOMAIN tokens' = DOMAIN tokens
                  /\ tokens'[c].Healthy = TRUE
                  /\ tokens'[c].ErrorCount = 0
                  /\ \A t \in DOMAIN tokens \ {c} : tokens'[t] = tokens[t]
                  /\ GetHealthyTokenCount(tokens') = GetHealthyTokenCount(tokens) + (1 - was)

C6_Report == [][C6_ReportStep]_vars

\* A ReportHealthy that has restored a credential reported unhealthy before it,
\* with every credential of the pool healthy again.
C6_Witness ==
    \E p \in Procs :
        /\ pc[p] = "mh_done"
        /\ argTok[p] \in DOMAIN tokens \cap barred
        /\ tokens[argTok[p]].Healthy
        /\ GetHealthyTokenCount(tokens) = GetTotalTokenCount(tokens)

\* C7: while a ReportHealthy or ReportUnhealthy of a string that is no key of the
\* pool runs, the map, the counter and the strategy do not change.
C7_AbsentStep ==
    \A p \in Procs :
        (pc[p] \in {"mu_locked", "mu_done", "mh_locked", "mh_done"}
            /\ argTok[p] \notin DOMAIN tokens) =>
            <<tokens, counter, strategy>>' = <<tokens, counter, strategy>>

C7_Absent == [][C7_AbsentStep]_vars

\* A ReportUnhealthy of a string the pool was built with and a Refresh removed.
C7_Witness ==
    \E p \in Procs :
        /\ pc[p] = "mu_done"
        /\ argTok[p] \in ListSet(initList)
        /\ argTok[p] \notin DOMAIN tokens
        /\ DOMAIN tokens # {}

\* RefreshTokens has finished its loop and is about to return.
Refreshed(p) == pc[p] = "rf_loop" /\ loopIdx[p] > Len(argList[p])

\* C8: when Refresh(N) returns, the keys are the distinct strings of N, every entry is
\* healthy with no errors, both counts are the number of distinct strings of N;
\* and an Acquire returns only strings of the last list the pool was given.
C8_Refresh ==
    /\ \A p \in Procs :
          Refreshed(p) =>
              /\ DOMAIN tokens = ListSet(argList[p])
              /\ \A t \in DOMAIN tokens : tokens[t].Healthy /\ tokens[t].ErrorCount = 0
              /\ GetTotalTokenCount(tokens) = Cardinality(ListSet(argList[p]))
              /\ GetHealthyTokenCount(tokens) = Cardinality(ListSet(argList[p]))
    /\ \A p \in Procs : Selected(p) => res[p].token \in lastKeys

\* A Refresh with a repeated string that was reported unhealthy before it.
C8_Witness ==
    \E p \in Procs :
        /\ Refreshed(p)
        /\ Len(argList[p]) > Cardinality(ListSet(argList[p]))
        /\ (ListSet(argList[p]) \cap barred) # {}

\* C9: the healthy entries an Acquire selects from are those of the map as it is
\* when no Refresh is in progress; were a Refresh in progress, they are those
\* of the map before it or the strings of its list; the result is one of them.
C9_RefreshAtomic ==
    \A p \in Procs :
        pc[p] = "gt_done" =>
            /\ IF Refreshing
               THEN seen[p] \in {oldHealthy, ListSet(argList[writer])}
               ELSE seen[p] = HealthyKeys(tokens)
            /\ Selected(p) => res[p].token \in seen[p]

\* An Acquire called while a Refresh held the lock, which then chose among the
\* strings of that Refresh, none of them a key before it.
C9_Witness ==
    \E p \in Procs :
        /\ Selected(p) /\ overlap[p]
        /\ seen[p] = lastKeys
        /\ (lastKeys \cap ListSet(initList)) = {}

\* C10: the request that acquired c sends c in its header; on a transport error or a
\* 401 it reports c unhealthy and fails, on a 200 it reports c healthy and
\* returns the response; no step of it changes another credential's entry.
C10_RequestStep ==
    \A p \in Procs :
        /\ (pc[p] = "idle" /\ pc'[p] = "rq_got") =>
              /\ reqTok'[p] \in DOMAIN tokens
              /\ DOMAIN tokens' = DOMAIN tokens
              /\ \A t \in DOMAIN tokens \ {reqTok'[p]} : tokens'[t] = tokens[t]
        /\ (pc[p] = "rq_got" /\ pc'[p] = "rq_answered") =>
              /\ reqHdr'[p] = reqTok[p]
              /\ tokens' = tokens
        /\ (pc[p] = "rq_answered" /\ pc'[p] = "rq_ret") =>
              LET c == reqHdr[p]
                  o == reqOutcome[p]
              IN  /\ c # NoToken
                  /\ DOMAIN tokens' = DOMAIN tokens
                  /\ \A t \in DOMAIN tokens \ {c} : tokens'[t] = tokens[t]
                  /\ (o.transportErr \/ o.status = 401) =>
                        /\ reqRet'[p] = "error"
                        /\ IF c \in DOMAIN tokens
                           THEN /\ ~tokens'[c].Healthy
                                /\ tokens'[c].ErrorCount = tokens[c].ErrorCount + 1
                           ELSE tokens' = tokens
                  /\ (~o.transportErr /\ o.status = 200) =>
                        /\ reqRet'[p] = "response"
                        /\ IF c \in DOMAIN tokens
                           THEN tokens'[c].Healthy /\ tokens'[c].ErrorCount = 0
                           ELSE tokens' = tokens

C10_Request == [][C10_RequestStep]_vars

\* A request answered 401, where only the status check of SendJetbrainsRequest can
\* notice it, has failed and left its credential unhealthy and another healthy.
C10_Witness ==
    \E p \in Procs :
        /\ pc[p] = "rq_ret" /\ reqRet[p] = "error"
        /\ ~afterResponseRuns
        /\ ~reqOutcome[p].transportErr /\ reqOutcome[p].status = 401
        /\ reqHdr[p] \in DOMAIN tokens /\ ~tokens[reqHdr[p]].Healthy
        /\ HealthyKeys(tokens) # {}

\* C11: when the upstream answers with a status that is neither 200 nor 401, the
\* report step of the request leaves every pool entry as it was.
C11_OtherStatusStep ==
    \A p \in Procs :
        (/\ pc[p] = "rq_answered"
         /\ pc'[p] = "rq_ret"
         /\ ~reqOutcome[p].transportErr
         /\ reqOutcome[p].status \notin {200, 401})
            => tokens' = tokens

BearerPrefix == <<"B", "e", "a", "r", "e", "r", " ">>
LowerPrefix == <<"b", "e", "a", "r", "e", "r", " ">>

\* strings.HasPrefix and strings.TrimPrefix
HasPrefix(s, prefix) == Len(s) >= Len(prefix) /\ SubSeq(s, 1, Len(prefix)) = prefix
TrimPrefix(s, prefix) == IF HasPrefix(s, prefix) THEN SubSeq(s, Len(prefix) + 1, Len(s)) ELSE s

\* The bearer strings a configuration source can hold; <<>> is "not set".
Bearers == {<<"k">>, <<"K">>}
BearerSettings == Bearers \cup {<<>>}

\* Manager: mergeConfig of the file, then loadFromEnv, then the -k override.
ManagerBearer(file, env, cli) ==
    LET merged == IF file # <<>> THEN file ELSE <<>>
        loaded == IF env # <<>> THEN env ELSE merged
    IN  IF cli # <<>> THEN cli ELSE loaded

\* The entry without a manager: BEARER_TOKEN from the environment, then -k.
LegacyBearer(env, cli) == IF cli # <<>> THEN cli ELSE env

\* The Authorization headers a client sends when the bearer is b.
Headers(b) ==
    {<<>>, b, BearerPrefix, BearerPrefix \o b, LowerPrefix \o b, BearerPrefix \o b \o <<" ">>}
        \cup {BearerPrefix \o other : other \in Bearers}

\* types.modelMap, of which one key is kept, and a name that is not a key.
Registry == {"gpt-4o"}
ModelNames == Registry \cup {"does-not-exist"}

\* The chat requests: the header, whether c.Bind fails, the model, the number of
\* messages and the stream flag.
Requests(b) ==
    [auth : Headers(b), bindErr : BOOLEAN, model : ModelNames, messages : 0..1,
     stream : BOOLEAN]

\* BearerAuth: "401", "panic" (nil dereference of config.JetbrainsAiConfig) or "next".
BearerAuth(auth, cfg) ==
    IF auth = <<>> \/ ~HasPrefix(auth, BearerPrefix) THEN "401"
    ELSE IF cfg.nil THEN "panic"
    ELSE LET token == TrimPrefix(auth, BearerPrefix)
         IN  IF token # cfg.BearerToken \/ token = <<>> THEN "401" ELSE "next"

\* log.Printf("invalid token: %s", token): the line BearerAuth logs when the
\* token after "Bearer " is empty or not the configured one; <<>> when it logs
\* nothing (no such header, the nil dereference before the test, or a match).
InvalidToken == <<"i", "n", "v", "a", "l", "i", "d", " ", "t", "o", "k", "e", "n", ":", " ">>
BearerAuthLog(auth, cfg) ==
    IF auth = <<>> \/ ~HasPrefix(auth, BearerPrefix) THEN <<>>
    ELSE IF cfg.nil THEN <<>>
    ELSE LET token == TrimPrefix(auth, BearerPrefix)
         IN  IF token # cfg.BearerToken \/ token = <<>> THEN InvalidToken \o token ELSE <<>>

\* handleChatCompletion without its check of len(req.Messages).
ValidateRequestNoMessages(req) ==
    IF req.bindErr THEN 400
    ELSE IF req.model \notin Registry THEN 400
    ELSE 0

\* handleChatCompletion before it calls SendJetbrainsRequest: the status it
\* answers with, 0 when it goes on.
ValidateRequest(req) ==
    IF req.bindErr THEN 400
    ELSE IF req.model \notin Registry THEN 400
    ELSE IF req.messages = 0 THEN 400
    ELSE 0

\* The server as either main leaves it: the bearer resolved from the sources
\* (an empty one is fatal), the pool built from a non-empty token list.
\* Only the entry without a manager calls config.LoadConfig, which assigns
\* config.JetbrainsAiConfig.
InitHttp ==
    /\ \E list \in DistinctLists(MaxList) :
          /\ tokens = NewJWTBalancer(list, 0)
          /\ initList = list
          /\ lastKeys = ListSet(list)
    /\ counter = 0
    /\ strategy \in {RoundRobin, Random}
    /\ now = MaxTime
    /\ readers = {}
    /\ writer = NoProc
    /\ InitProcs
    /\ barred = {}
    /\ oldHealthy = {}
    /\ hist = <<>>
    /\ afterResponseRuns \in BOOLEAN
    /\ \E manager \in BOOLEAN, file \in BearerSettings, env \in BearerSettings,
          cli \in BearerSettings :
          /\ BearerToken = IF manager THEN ManagerBearer(file, env, cli)
                           ELSE LegacyBearer(env, cli)
          /\ BearerToken # <<>>
          /\ JetbrainsAiConfig = IF manager THEN Nil ELSE ConfigOf(BearerToken)
    /\ HttpQuiet
    /\ SSEIdle
    /\ HcIdle
    /\ AdminIdle

\* A chat request arrives.
HttpArrive ==
    /\ hpc = "idle"
    /\ \E req \in Requests(BearerToken) : hReq' = req
    /\ hpc' = "auth"
    /\ hPool' = [tokens |-> tokens, counter |-> counter]
    /\ UNCHANGED <<poolVars, lockVars, procVars, histVars, reqVars, JetbrainsAiConfig,
                   BearerToken, hReached, hStatus, hTok, hUp, hTranslated, hBody, hLog, sseVars,
                   hcVars, adminVars>>

\* The BearerAuth middleware, inside middleware.Recover: a panic is answered 500.
HttpAuth ==
    /\ hpc = "auth"
    /\ LET a == BearerAuth(hReq.auth, JetbrainsAiConfig)
       IN  /\ hReached' = (a = "next")
           /\ hStatus' = CASE a = "401" -> 401 [] a = "panic" -> 500 [] OTHER -> 0
           /\ hpc' = IF a = "next" THEN "handler" ELSE "done"
    /\ hLog' = BearerAuthLog(hReq.auth, JetbrainsAiConfig)
    /\ UNCHANGED <<poolVars, lockVars, procVars, histVars, reqVars, JetbrainsAiConfig,
                   BearerToken, hReq, hTok, hUp, hTranslated, hPool, hBody, sseVars,
                   hcVars, adminVars>>

\* handleChatCompletion up to the call of SendJetbrainsRequest.
HandlerValidate ==
    /\ hpc = "handler"
    /\ hStatus' = ValidateRequest(hReq)
    /\ hpc' = IF ValidateRequest(hReq) = 0 THEN "send" ELSE "done"
    /\ UNCHANGED <<poolVars, lockVars, procVars, histVars, reqVars, JetbrainsAiConfig,
                   BearerToken, hReq, hReached, hTok, hUp, hTranslated, hPool, hBody, hLog, sseVars,
                   hcVars, adminVars>>

\* The whole call of SendJetbrainsRequest and the handler's answer when it
\* returns an error.
HandlerSend ==
    /\ hpc = "send"
    /\ \E r \in GetTokenResults(tokens, counter, strategy, now) :
          /\ r.counter <= MaxCounter
          /\ counter' = r.counter
          /\ hTok' = r.token
          /\ IF r.err
             THEN /\ tokens' = r.tokens
                  /\ hUp' = NoOutcome
                  /\ hStatus' = 500
                  /\ hpc' = "done"
                  /\ barred' = barred
                  /\ hBody' = "none"
             ELSE \E o \in Upstream :
                     LET d == ReportDecision(o, afterResponseRuns)
                     IN  /\ d.mark = "unhealthy" => r.tokens[r.token].ErrorCount < MaxErrors
                         /\ tokens' = CASE d.mark = "unhealthy" -> MarkTokenUnhealthy(r.tokens, r.token)
                                        [] d.mark = "healthy" -> MarkTokenHealthy(r.tokens, r.token)
                                        [] OTHER -> r.tokens
                         /\ barred' = CASE d.mark = "unhealthy" -> barred \cup {r.token}
                                        [] d.mark = "healthy" -> barred \ {r.token}
                                        [] OTHER -> barred
                         /\ hUp' = o
                         /\ hBody' = IF o.transportErr THEN "none" ELSE "open"
                         /\ hStatus' = IF d.ret = "error" THEN 500 ELSE 0
                         /\ hpc' = IF d.ret = "error" THEN "done" ELSE "translate"
    /\ UNCHANGED <<strategy, now, lockVars, procVars, oldHealthy, lastKeys, initList, hist,
                   reqVars, JetbrainsAiConfig, BearerToken, hReq, hReached, hTranslated,
                   hPool, hLog, sseVars,
                   hcVars, adminVars>>

\* handleChatCompletion with the upstream response in hand: WriteHeader(200) and
\* the streaming translator, or the buffered translator and 200, or 500 when the
\* buffered translator returns an error. The deferred stream.RawBody().Close()
\* runs as the handler returns.
HandlerTranslate ==
    /\ hpc = "translate"
    /\ hTranslated' = IF hReq.stream THEN "stream" ELSE "buffered"
    /\ hStatus' \in IF hReq.stream THEN {200} ELSE {200, 500}
    /\ hBody' = "closed"
    /\ hpc' = "done"
    /\ UNCHANGED <<poolVars, lockVars, procVars, histVars, reqVars, JetbrainsAiConfig,
                   BearerToken, hReq, hReached, hTok, hUp, hPool, hLog, sseVars,
                   hcVars, adminVars>>

\* The request is over; the server waits for the next one.
HttpDone ==
    /\ hpc = "done"
    /\ hpc' = "idle"
    /\ hReq' = NoRequest
    /\ hReached' = FALSE
    /\ hStatus' = 0
    /\ hTok' = NoToken
    /\ hUp' = NoOutcome
    /\ hTranslated' = "none"
    /\ hPool' = NoPool
    /\ hBody' = "none"
    /\ hLog' = <<>>
    /\ UNCHANGED <<poolVars, lockVars, procVars, histVars, reqVars, JetbrainsAiConfig,
                   BearerToken, sseVars, hcVars, adminVars>>

NextHttp ==
    \/ HttpArrive
    \/ HttpAuth
    \/ HandlerValidate
    \/ HandlerSend
    \/ HandlerTranslate
    \/ HttpDone

SpecHttp == InitHttp /\ [][NextHttp]_vars

\* A response came back from the upstream with a status other than 200 and 401.
OtherStatus(o) == ~o.transportErr /\ o.status \in Statuses \ {200, 401}

\* C12: a request whose upstream call was answered with a status that is
\* neither 200 nor 401 is answered 500, and no SSE translator ran on that body.
C12_OtherStatus500 ==
    (hpc = "done" /\ OtherStatus(hUp)) => (hStatus = 500 /\ hTranslated = "none")

\* The request in progress fails one of the handler's three checks.
Invalid(req) == req.bindErr \/ req.model \notin Registry \/ req.messages = 0

\* C13: an authorized request with a malformed body, an unknown model or no
\* messages is answered 400; no credential was acquired, no upstream call was
\* made, and the pool's entries and counter are as they were when it arrived.
C13_BadRequest ==
    (hpc = "done" /\ hReached /\ Invalid(hReq)) =>
        /\ hStatus = 400
        /\ hTok = NoToken
        /\ hUp = NoOutcome
        /\ hTranslated = "none"
        /\ tokens = hPool.tokens
        /\ counter = hPool.counter

\* An authorized request without messages was answered and the pool has a
\* healthy credential it could have acquired.
C13_Witness ==
    /\ hpc = "done"
    /\ hReached
    /\ ~hReq.bindErr
    /\ hReq.model \in Registry
    /\ hReq.messages = 0
    /\ hStatus = 400
    /\ HealthyKeys(tokens) # {}

\* C14: a request reaches the chat handler exactly when its Authorization
\* header is "Bearer " followed by the configured bearer; every other request
\* is answered 401 without a credential or an upstream call.
C14_BearerExact ==
    hpc \notin {"idle", "auth"} =>
        /\ hReached <=> hReq.auth = BearerPrefix \o BearerToken
        /\ ~hReached => (hStatus = 401 /\ hTok = NoToken /\ hUp = NoOutcome)

\* ------------------------------------------------------ the SSE translator
maxBufferSize == 1024 * 1024
flushThreshold == 10

\* An upstream line, by what the translators look at: whether it starts with
\* "data: ", its trimmed payload ("json" for a JSON object that unmarshals into
\* SSEData, "bad" for anything else that is not a sentinel), the fields of the
\* SSEData and len(line).
Line(data, payload, type, content, spent, size) ==
    [data |-> data, payload |-> payload, type |-> type, content |-> content,
     spent |-> spent, size |-> size]

\* SSEData.Spent: nil, or a SpentData with the Amount string.
NoSpent == [nil |-> TRUE, amount |-> <<>>]
Spent(amount) == [nil |-> FALSE, amount |-> amount]
Amounts == {<<"2", ".", "6">>, <<"x">>}

\* Line lengths: a short line, and a line of half the buffer limit.
ShortSize == Len(<<"d", "a", "t", "a", ":", " ", "\n">>)
HalfSize == maxBufferSize \div 2

ContentLine(c) == Line(TRUE, "json", "Content", c, NoSpent, ShortSize)
QuotaLine(sp) == Line(TRUE, "json", "QuotaMetadata", <<>>, sp, ShortSize)
OtherLine == Line(TRUE, "json", "FunctionCall", <<>>, NoSpent, ShortSize)
DoneLine == Line(TRUE, "[DONE]", "", <<>>, NoSpent, ShortSize)
BadJSONLine == Line(TRUE, "bad", "", <<>>, NoSpent, ShortSize)
CommentLine(size) == Line(FALSE, "", "", <<>>, NoSpent, size)

Lines ==
    {ContentLine(<<"a">>), ContentLine(<<"b">>), QuotaLine(NoSpent), OtherLine, DoneLine,
     BadJSONLine, CommentLine(ShortSize), CommentLine(HalfSize)}
        \cup {QuotaLine(Spent(a)) : a \in Amounts}

Bodies == UNION {[1..k -> Lines] : k \in 0..MaxLines}

\* strconv.ParseFloat on a decimal with at most one fractional digit, in tenths.
Digits == <<"0", "1", "2", "3", "4", "5", "6", "7", "8", "9">>
IsDigit(ch) == \E d \in 1..10 : Digits[d] = ch
DigitVal(ch) == (CHOOSE d \in 1..10 : Digits[d] = ch) - 1
ParseFloat(a) ==
    IF Len(a) = 1 /\ IsDigit(a[1])
        THEN [ok |-> TRUE, tenths |-> 10 * DigitVal(a[1])]
    ELSE IF Len(a) = 3 /\ IsDigit(a[1]) /\ a[2] = "." /\ IsDigit(a[3])
        THEN [ok |-> TRUE, tenths |-> 10 * DigitVal(a[1]) + DigitVal(a[3])]
    ELSE [ok |-> FALSE, tenths |-> 0]

\* int(x) instead of int(math.Round(x)).
MathTrunc(tenths) == tenths \div 10

\* int(math.Round(x)) for x >= 0 given in tenths: halves round away from zero.
MathRound(tenths) == (tenths + 5) \div 10

\* spentAmount of a QuotaMetadata event, rounded: 0 when Spent is nil or its
\* Amount does not parse.
SpentInt(sp) ==
    IF sp.nil THEN MathRound(0)
    ELSE IF ParseFloat(sp.amount).ok THEN MathRound(ParseFloat(sp.amount).tenths)
    ELSE MathRound(0)

\* utils.CalculateTokens: the number of tokens of the text; every character of
\* the texts used here is one token.
CalculateTokens(text) == Len(text)

\* utils.CalculateJetbrainsUsage
CalculateJetbrainsUsage(text, spent) ==
    [set |-> TRUE, prompt |-> spent - CalculateTokens(text),
     completion |-> spent - CalculateTokens(text), total |-> spent]

\* The frames written to the client.
Frame(kind, content, finish, usage) ==
    [kind |-> kind, content |-> content, finish |-> finish, usage |-> usage]
ContentChunkEmpty(c) == Frame("chunk", <<>>, "", NoUsage)
ContentChunk(c) == Frame("chunk", c, "", NoUsage)
FinalChunk(usage) == Frame("chunk", <<>>, "stop", usage)
Keepalive == Frame("keepalive", <<>>, "", NoUsage)
DoneFrame == Frame("done", <<>>, "", NoUsage)

\* sendFinishSignal left out.
NoFinishSignal == <<>>
\* sendFinishSignal: the frame "data: [DONE]".
FinishSignal == <<DoneFrame>>

\* totalBufferSize >= maxBufferSize
OverflowsAtLimit(total) == total >= maxBufferSize
\* totalBufferSize > maxBufferSize
Overflows(total) == total > maxBufferSize

\* The payload filter of StreamJetbrainsAISSEToClient and of
\* ResponseJetbrainsAIToClient, then sonic.UnmarshalString: the line yields an
\* SSEData. "[DONE]" is no JSON value, so where it is not filtered it fails to
\* unmarshal.
StreamParses(l) == l.data /\ l.payload \notin {"", "end"} /\ l.payload = "json"
BufferedParses(l) == l.data /\ l.payload \notin {"", "[DONE]", "end"} /\ l.payload = "json"

\* What the translators return: an error, or (buffered) the response of createMessage.
ReturnErr(err) ==
    [returned |-> TRUE, err |-> err, content |-> <<>>, finish |-> "", usage |-> NoUsage]
ReturnNil == ReturnErr("")
ResponseNoContent(content, usage) ==
    [returned |-> TRUE, err |-> "", content |-> <<>>, finish |-> "stop", usage |-> usage]
Response(content, usage) ==
    [returned |-> TRUE, err |-> "", content |-> content, finish |-> "stop", usage |-> usage]

\* The lines ReadString returns whole. What follows the last newline of the
\* body comes with io.EOF and is dropped by both translators.
Delivered == Len(upstream)

\* A translator is called on an upstream body: any lines, in either mode. The pool plays no part.
InitSSE ==
    /\ tokens = EmptyMap
    /\ initList = <<>>
    /\ lastKeys = {}
    /\ counter = 0
    /\ strategy = RoundRobin
    /\ now = 0
    /\ readers = {}
    /\ writer = NoProc
    /\ InitProcs
    /\ barred = {}
    /\ oldHealthy = {}
    /\ hist = <<>>
    /\ afterResponseRuns = FALSE
    /\ HttpIdle
    /\ upstream \in Bodies
    /\ mode \in {"stream", "buffered"}
    /\ spc = "select"
    /\ SSEQuiet
    /\ HcIdle
    /\ AdminIdle

sseRest == <<poolVars, lockVars, procVars, histVars, reqVars, httpVars, hcVars, adminVars,
            upstream, mode>>

\* select: case <-ctx.Done()
SelectCtx ==
    /\ spc = "select"
    /\ ctxDone
    /\ spc' = "done"
    /\ sseRet' = ReturnErr("ctx")
    /\ UNCHANGED <<sseRest, pos, totalBufferSize, messageCount, completionBuilder, out, hbDue,
                   beats, ctxDone, missed>>

\* select: case <-heartbeat.C, sendHeartbeat and continue
SelectHeartbeat ==
    /\ spc = "select"
    /\ mode = "stream"
    /\ hbDue
    /\ hbDue' = FALSE
    /\ out' = Append(out, Keepalive)
    /\ UNCHANGED <<sseRest, spc, pos, totalBufferSize, messageCount, completionBuilder, sseRet,
                   beats, ctxDone, missed>>

\* select: default, taken when no case is ready; the translator calls ReadString.
SelectDefault ==
    /\ spc = "select"
    /\ ~ctxDone
    /\ ~hbDue
    /\ spc' = "read"
    /\ UNCHANGED <<sseRest, pos, totalBufferSize, messageCount, completionBuilder, out, sseRet,
                   hbDue, beats, ctxDone, missed>>

\* processMessage: the frames it sends for an SSEData.
ProcessMessage(l, text) ==
    CASE l.type = "Content" -> <<ContentChunk(l.content)>>
      [] l.type = "QuotaMetadata" ->
            <<FinalChunk(CalculateJetbrainsUsage(text, SpentInt(l.spent)))>>
      [] OTHER -> <<>>

\* StreamJetbrainsAISSEToClient: ReadString returns a whole line, and the rest
\* of the loop body.
StreamReadLine ==
    /\ spc = "read"
    /\ mode = "stream"
    /\ pos < Delivered
    /\ LET l == upstream[pos + 1]
           total == totalBufferSize + l.size
           text == IF l.type = "Content" THEN completionBuilder \o l.content
                   ELSE completionBuilder
       IN  /\ pos' = pos + 1
           /\ missed' = (missed \/ hbDue)
           /\ totalBufferSize' = total
           /\ IF Overflows(total)
              THEN /\ sseRet' = ReturnErr("buffer overflow")
                   /\ spc' = "done"
                   /\ UNCHANGED <<messageCount, completionBuilder, out>>
              ELSE IF ~StreamParses(l)
              THEN /\ spc' = "select"
                   /\ UNCHANGED <<messageCount, completionBuilder, out, sseRet>>
              ELSE /\ completionBuilder' = text
                   /\ messageCount' = IF messageCount + 1 >= flushThreshold THEN 0
                                      ELSE messageCount + 1
                   /\ IF l.type = "QuotaMetadata"
                      THEN /\ out' = out \o ProcessMessage(l, text) \o FinishSignal
                           /\ sseRet' = ReturnNil
                           /\ spc' = "done"
                      ELSE /\ out' = out \o ProcessMessage(l, text)
                           /\ spc' = "select"
                           /\ UNCHANGED sseRet
    /\ UNCHANGED <<sseRest, hbDue, beats, ctxDone>>

\* StreamJetbrainsAISSEToClient: ReadString returns io.EOF, with or without the
\* start of a line; the translator returns nil.
StreamReadEOF ==
    /\ spc = "read"
    /\ mode = "stream"
    /\ pos = Delivered
    /\ sseRet' = ReturnNil
    /\ spc' = "done"
    /\ UNCHANGED <<sseRest, pos, totalBufferSize, messageCount, completionBuilder, out, hbDue,
                   beats, ctxDone, missed>>

\* ReadString returns an error other than io.EOF.
ReadError ==
    /\ spc = "read"
    /\ sseRet' = ReturnErr("read error")
    /\ spc' = "done"
    /\ UNCHANGED <<sseRest, pos, totalBufferSize, messageCount, completionBuilder, out, hbDue,
                   beats, ctxDone, missed>>

\* ResponseJetbrainsAIToClient: ReadString returns a whole line, and the rest of
\* the loop body.
BufferedReadLine ==
    /\ spc = "read"
    /\ mode = "buffered"
    /\ pos < Delivered
    /\ LET l == upstream[pos + 1]
           text == IF BufferedParses(l) /\ l.type = "Content"
                   THEN completionBuilder \o l.content ELSE completionBuilder
       IN  /\ pos' = pos + 1
           /\ completionBuilder' = text
           /\ IF BufferedParses(l) /\ l.type = "QuotaMetadata"
              THEN /\ sseRet' = Response(text, CalculateJetbrainsUsage(text, SpentInt(l.spent)))
                   /\ spc' = "done"
              ELSE /\ spc' = "select"
                   /\ UNCHANGED sseRet
    /\ UNCHANGED <<sseRest, totalBufferSize, messageCount, out, hbDue, beats, ctxDone, missed>>

\* ResponseJetbrainsAIToClient: io.EOF breaks the loop; the response without
\* QuotaMetadata.
BufferedReadEOF ==
    /\ spc = "read"
    /\ mode = "buffered"
    /\ pos = Delivered
    /\ sseRet' = Response(completionBuilder, CalculateJetbrainsUsage(completionBuilder, 0))
    /\ spc' = "done"
    /\ UNCHANGED <<sseRest, pos, totalBufferSize, messageCount, completionBuilder, out, hbDue,
                   beats, ctxDone, missed>>

\* The heartbeat ticker ticks: heartbeat.C holds one tick at most.
HeartbeatTick ==
    /\ mode = "stream"
    /\ spc \in {"select", "read"}
    /\ beats < MaxBeats
    /\ beats' = beats + 1
    /\ hbDue' = TRUE
    /\ UNCHANGED <<sseRest, spc, pos, totalBufferSize, messageCount, completionBuilder, out,
                   sseRet, ctxDone, missed>>

\* The request's context is cancelled.
Cancel ==
    /\ spc \in {"select", "read"}
    /\ ~ctxDone
    /\ ctxDone' = TRUE
    /\ UNCHANGED <<sseRest, spc, pos, totalBufferSize, messageCount, completionBuilder, out,
                   sseRet, hbDue, beats, missed>>

NextSSE ==
    \/ SelectCtx
    \/ SelectHeartbeat
    \/ SelectDefault
    \/ StreamReadLine
    \/ StreamReadEOF
    \/ ReadError
    \/ BufferedReadLine
    \/ BufferedReadEOF
    \/ HeartbeatTick
    \/ Cancel

SpecSSE == InitSSE /\ [][NextSSE]_vars

\* ------------------------------------------- the upstream body, as sent
\* The line is an upstream event: a "data: " line whose payload is a JSON event.
IsEvent(l) == l.data /\ l.payload = "json"
IsContent(l) == IsEvent(l) /\ l.type = "Content"
IsQuota(l) == IsEvent(l) /\ l.type = "QuotaMetadata"
IsDone(l) == l.data /\ l.payload = "[DONE]"

\* The position of the first QuotaMetadata event and of the first "data: [DONE]"
\* line of the body, 0 when there is none.
FirstQuota ==
    IF \E i \in 1..Len(upstream) : IsQuota(upstream[i])
    THEN CHOOSE i \in 1..Len(upstream) :
            IsQuota(upstream[i]) /\ \A j \in 1..(i - 1) : ~IsQuota(upstream[j])
    ELSE 0
FirstDone ==
    IF \E i \in 1..Len(upstream) : IsDone(upstream[i])
    THEN CHOOSE i \in 1..Len(upstream) :
            IsDone(upstream[i]) /\ \A j \in 1..(i - 1) : ~IsDone(upstream[j])
    ELSE 0

\* The bytes of the first n lines.
RECURSIVE SumSizes(_)
SumSizes(n) == IF n = 0 THEN 0 ELSE SumSizes(n - 1) + upstream[n].size

\* The contents of the Content events among the first n lines, in order.
RECURSIVE ContentEvents(_)
ContentEvents(n) ==
    IF n <= 0 THEN <<>>
    ELSE IF IsContent(upstream[n]) THEN Append(ContentEvents(n - 1), upstream[n].content)
    ELSE ContentEvents(n - 1)

\* The concatenation of a sequence of strings.
RECURSIVE Flatten(_)
Flatten(ss) == IF ss = <<>> THEN <<>> ELSE Head(ss) \o Flatten(Tail(ss))

\* The delta contents of the content chunks sent to the client, in order.
IsContentChunk(f) == f.kind = "chunk" /\ f.finish # "stop"
ContentChunks ==
    LET cs == SelectSeq(out, IsContentChunk) IN [i \in 1..Len(cs) |-> cs[i].content]

IsPrefix(a, b) == Len(a) <= Len(b) /\ SubSeq(b, 1, Len(a)) = a

\* The streaming output ends with one final chunk (finish_reason stop, empty
\* delta, usage) and then one "data: [DONE]", both sent once only, after the
\* chunks of the Content events that precede the QuotaMetadata and of no other.
EndsWithDone ==
    /\ Len(out) >= 2
    /\ out[Len(out)] = DoneFrame
    /\ out[Len(out) - 1].kind = "chunk"
    /\ out[Len(out) - 1].finish = "stop"
    /\ out[Len(out) - 1].content = <<>>
    /\ out[Len(out) - 1].usage.set
    /\ Cardinality({i \in 1..Len(out) : out[i] = DoneFrame}) = 1
    /\ Cardinality({i \in 1..Len(out) : out[i].finish = "stop"}) = 1
    /\ ContentChunks = ContentEvents(FirstQuota - 1)

\* The streaming translator has returned, and not because of a cancellation or
\* a failed read, from a body with a QuotaMetadata event.
StreamedQuota ==
    /\ mode = "stream"
    /\ sseRet.returned
    /\ sseRet.err \notin {"ctx", "read error"}
    /\ FirstQuota > 0

C16_ContentOrder ==
    mode = "stream" =>
        /\ IsPrefix(ContentChunks, ContentEvents(Len(upstream)))
        /\ (/\ sseRet.returned
            /\ sseRet.err = ""
            /\ FirstQuota \in {0, Len(upstream)}
            /\ SumSizes(Len(upstream)) <= maxBufferSize)
              => (/\ ContentChunks = ContentEvents(Len(upstream))
                  /\ Flatten(ContentChunks) = Flatten(ContentEvents(Len(upstream))))

\* Two different Content events with a line of another kind between them were
\* forwarded.
C16_Witness ==
    /\ mode = "stream"
    /\ sseRet.returned
    /\ sseRet.err = ""
    /\ Len(upstream) = 3
    /\ ~IsContent(upstream[2])
    /\ Len(ContentChunks) = 2
    /\ ContentChunks[1] # ContentChunks[2]

\* The spent amount S of a QuotaMetadata event, and "n is S rounded to the
\* nearest integer (0 when S is missing or does not parse)".
IsNearest(n, sp) ==
    IF sp.nil \/ ~ParseFloat(sp.amount).ok THEN n = 0
    ELSE LET d == 10 * n - ParseFloat(sp.amount).tenths
         IN  d <= 5 /\ -d <= 5

\* C17: in buffered mode, for a body without "[DONE]" lines whose first
\* QuotaMetadata event has the spent amount S, the response has the
\* concatenation of the Content events before it as message content,
\* finish_reason stop and usage.total_tokens = S rounded; other lines do not
\* change the result.
C17_Buffered ==
    (/\ mode = "buffered"
     /\ sseRet.returned
     /\ sseRet.err = ""
     /\ FirstQuota > 0
     /\ FirstDone = 0)
        => /\ sseRet.content = Flatten(ContentEvents(FirstQuota - 1))
           /\ sseRet.finish = "stop"
           /\ sseRet.usage.set
           /\ IsNearest(sseRet.usage.total, upstream[FirstQuota].spent)

\* Two Content events and a QuotaMetadata whose amount is not an integer.
C17_Witness ==
    /\ mode = "buffered"
    /\ sseRet.returned
    /\ sseRet.err = ""
    /\ FirstQuota = 3
    /\ ~upstream[3].spent.nil
    /\ ParseFloat(upstream[3].spent.amount).ok
    /\ sseRet.content = <<"a", "b">>
    /\ sseRet.usage.total = 3

\* C18: a "data: [DONE]" line that comes before any QuotaMetadata event ends
\* the translation in both modes: no line after it is read.
C18_DoneTerminates ==
    (FirstDone > 0 /\ (FirstQuota = 0 \/ FirstDone < FirstQuota)) => pos <= FirstDone

\* C19: in streaming mode totalBufferSize is the number of bytes of all the
\* lines read; the translator returns "buffer overflow" exactly when that
\* number first exceeds maxBufferSize, having sent nothing for the line that
\* exceeded it and no final chunk or "data: [DONE]".
C19_Overflow ==
    mode = "stream" =>
        /\ totalBufferSize = SumSizes(pos)
        /\ (sseRet.err = "buffer overflow") <=> (SumSizes(pos) > maxBufferSize)
        /\ sseRet.err = "buffer overflow" =>
              /\ sseRet.returned
              /\ SumSizes(pos - 1) <= maxBufferSize
              /\ ContentChunks = ContentEvents(pos - 1)
              /\ \A i \in 1..Len(out) : out[i] # DoneFrame /\ out[i].finish # "stop"

\* Exactly maxBufferSize bytes were accepted and the Content event after them
\* was refused.
C19_Witness ==
    /\ mode = "stream"
    /\ sseRet.err = "buffer overflow"
    /\ SumSizes(pos - 1) = maxBufferSize
    /\ IsContent(upstream[pos])
    /\ out = <<>>

\* C20: a tick of the heartbeat ticker is answered with a keepalive before the
\* next upstream line is read.
C20_KeepaliveWhileWaiting == ~missed

\* C21: once the request's context is cancelled, the translator reads no further
\* upstream line, writes no further frame (chunk, keepalive or [DONE]), and when
\* it returns, it returns with the cancellation as its error.
C21_AfterCancelStep ==
    ctxDone =>
        /\ pos' = pos
        /\ out' = out
        /\ sseRet'.returned => sseRet'.err \in {"ctx", "read error"}

C21_AfterCancel == [][C21_AfterCancelStep]_vars

\* C30: when the handler of a request has returned and the upstream had sent a
\* response to that request, the body of that response has been closed.
C30_BodyClosed ==
    (hpc = "done" /\ ~hUp.transportErr /\ hUp.status # 0) => hBody = "closed"

\* ------------------------------------------------------ the health checker
\* HealthChecker.maxRetries as NewHealthChecker sets it.
maxRetries == 3
\* The check intervals that occur, in seconds.
Intervals == {DefaultInterval, 60}
\* The healthCheckLoop goroutines Start can have spawned.
Loops == 1..MaxStarts
\* A loop that has not returned: spawned, in performHealthCheck, or in its select.
Alive == {"spawned", "sweep", "select"}
LiveLoops == {l \in Loops : hcLoop[l].pc \in Alive}
Spawned == Cardinality({l \in Loops : hcLoop[l].pc # "none"})
\* The counter of hc.wg: Add(1) in Start, Done as a loop returns.
wg == Cardinality(LiveLoops)

\* Start that does not look at hc.running.
AlreadyRunningNever(r) == FALSE

\* Start: if hc.running { return }
AlreadyRunning(r) == r

\* NewHealthChecker builds its client with resty.New().SetTimeout().SetHeaders():
\* without SetDoNotParseResponse, so Post reads the whole response body before
\* it returns, and returns the error of that read.
ProberParsesResponse == TRUE
ProbePostError(o, bodyOk) == o.transportErr \/ (ProberParsesResponse /\ ~bodyOk)

\* testTokenRequest that takes only status 200 for a valid credential.
TestTokenRequestOnly200(o, bodyOk) == ~ProbePostError(o, bodyOk) /\ o.status = 200

\* testTokenRequest: false on an error of Post, true on status 200 and on 403.
TestTokenRequest(o, bodyOk) ==
    IF ProbePostError(o, bodyOk) THEN FALSE
    ELSE IF o.status = 200 THEN TRUE
    ELSE IF o.status = 403 THEN TRUE
    ELSE FALSE

\* performHealthCheck: the keys of the pool's map, copied under its read lock.
Snapshot(m) == [t \in DOMAIN m |-> NewCheck]

\* checkTokenHealth has left its retry loop.
RetriesOver(c) == c.ok \/ c.tries >= maxRetries

\* A health checker on the pool, as InitializeFromConfig or InitializeBalancer
\* built it, before Start.
InitProber ==
    /\ \E list \in DistinctLists(MaxList) :
          /\ tokens = NewJWTBalancer(list, 0)
          /\ initList = list
          /\ lastKeys = ListSet(list)
    /\ counter = 0
    /\ strategy = RoundRobin
    /\ now = MaxTime
    /\ readers = {}
    /\ writer = NoProc
    /\ InitProcs
    /\ barred = {}
    /\ oldHealthy = {}
    /\ hist = <<>>
    /\ afterResponseRuns = FALSE
    /\ HttpIdle
    /\ SSEIdle
    /\ NewHealthChecker
    /\ AdminIdle

Crashed == hcFault

hcRest == <<counter, strategy, now, lockVars, procVars, histVars, reqVars, httpVars, sseVars, adminVars>>

\* Start, the whole call under hc.mutex.
Start ==
    /\ ~Crashed
    /\ hcMutex = "free"
    /\ IF AlreadyRunning(running)
       THEN /\ noop' = "Start"
            /\ UNCHANGED <<running, hcLoop>>
       ELSE /\ Spawned < MaxStarts
            /\ running' = TRUE
            /\ hcLoop' = [hcLoop EXCEPT ![Spawned + 1].pc = "spawned"]
            /\ noop' = "none"
    /\ UNCHANGED <<hcRest, tokens, stopChan, hcMutex, checkInterval, hcFault, probeBodyRead>>

\* Stop up to wg.Wait(): the running test, close(hc.stopChan), which panics on a
\* closed channel; the deferred Unlock runs as the panic unwinds.
StopClose ==
    /\ ~Crashed
    /\ hcMutex = "free"
    /\ IF ~running
       THEN /\ noop' = "Stop"
            /\ UNCHANGED <<running, stopChan, hcMutex, hcFault>>
       ELSE /\ running' = FALSE
            /\ noop' = "none"
            /\ IF stopChan = "closed"
               THEN /\ hcFault' = TRUE
                    /\ UNCHANGED <<stopChan, hcMutex>>
               ELSE /\ stopChan' = "closed"
                    /\ hcMutex' = "Stop"
                    /\ UNCHANGED hcFault
    /\ UNCHANGED <<hcRest, tokens, checkInterval, hcLoop, probeBodyRead>>

\* Stop: wg.Wait() returns, and the call with it.
StopJoin ==
    /\ ~Crashed
    /\ hcMutex = "Stop"
    /\ wg = 0
    /\ hcMutex' = "free"
    /\ UNCHANGED <<hcRest, tokens, running, stopChan, checkInterval, hcLoop, hcFault, noop,
                   probeBodyRead>>

\* SetCheckInterval, the whole call under hc.mutex.
SetCheckInterval ==
    /\ ~Crashed
    /\ hcMutex = "free"
    /\ \E d \in Intervals : checkInterval' = d
    /\ UNCHANGED <<hcRest, tokens, running, stopChan, hcMutex, hcLoop, hcFault, noop,
                   probeBodyRead>>

\* healthCheckLoop: time.NewTicker(hc.checkInterval) and the first
\* performHealthCheck, up to its copy of the pool's keys.
LoopBegin(l) ==
    /\ ~Crashed
    /\ hcLoop[l].pc = "spawned"
    /\ CanRLock
    /\ hcLoop' = [hcLoop EXCEPT ![l] = [pc |-> "sweep", ticker |-> checkInterval,
                                         checks |-> Snapshot(tokens)]]
    /\ UNCHANGED <<hcRest, tokens, running, stopChan, hcMutex, checkInterval, hcFault, noop,
                   probeBodyRead>>

\* select: case <-ticker.C, performHealthCheck up to its copy of the pool's keys.
LoopTick(l) ==
    /\ ~Crashed
    /\ hcLoop[l].pc = "select"
    /\ CanRLock
    /\ hcLoop' = [hcLoop EXCEPT ![l].pc = "sweep", ![l].checks = Snapshot(tokens)]
    /\ UNCHANGED <<hcRest, tokens, running, stopChan, hcMutex, checkInterval, hcFault, noop,
                   probeBodyRead>>

\* select: case <-hc.stopChan, return; the deferred wg.Done and ticker.Stop.
LoopQuit(l) ==
    /\ ~Crashed
    /\ hcLoop[l].pc = "select"
    /\ stopChan = "closed"
    /\ hcLoop' = [hcLoop EXCEPT ![l].pc = "exited"]
    /\ UNCHANGED <<hcRest, tokens, running, stopChan, hcMutex, checkInterval, hcFault, noop,
                   probeBodyRead>>

\* checkTokenHealth: one pass of the retry loop, a call of testTokenRequest.
ProbeAttempt(l, t) ==
    /\ ~Crashed
    /\ hcLoop[l].pc = "sweep"
    /\ t \in DOMAIN hcLoop[l].checks
    /\ LET c == hcLoop[l].checks[t]
       IN  /\ c.reported = "none"
           /\ ~RetriesOver(c)
           /\ \E o \in Upstream, bodyOk \in BOOLEAN :
                 /\ o.transportErr => bodyOk
                 /\ hcLoop' = [hcLoop EXCEPT ![l].checks[t] =
                       [c EXCEPT !.tries = c.tries + 1,
                                 !.ok = TestTokenRequest(o, bodyOk),
                                 !.answered = IF /\ ~o.transportErr
                                                 /\ bodyOk
                                                 /\ o.status \in {200, 403}
                                              THEN c.tries + 1 ELSE c.answered]]
                 /\ probeBodyRead' = (probeBodyRead \/ (~o.transportErr /\ ProberParsesResponse))
    /\ UNCHANGED <<hcRest, tokens, running, stopChan, hcMutex, checkInterval, hcFault, noop>>

\* checkTokenHealth after its retry loop: MarkTokenHealthy or MarkTokenUnhealthy.
ProbeReport(l, t) ==
    /\ ~Crashed
    /\ hcLoop[l].pc = "sweep"
    /\ t \in DOMAIN hcLoop[l].checks
    /\ CanLock
    /\ LET c == hcLoop[l].checks[t]
       IN  /\ c.reported = "none"
           /\ RetriesOver(c)
           /\ ~c.ok /\ t \in DOMAIN tokens => tokens[t].ErrorCount < MaxErrors
           /\ tokens' = IF c.ok THEN MarkTokenHealthy(tokens, t)
                        ELSE MarkTokenUnhealthy(tokens, t)
           /\ hcLoop' = [hcLoop EXCEPT ![l].checks[t].reported =
                                          IF c.ok THEN "healthy" ELSE "unhealthy"]
    /\ UNCHANGED <<hcRest, running, stopChan, hcMutex, checkInterval, hcFault, noop,
                   probeBodyRead>>

\* performHealthCheck: wg.Wait() returns, every checkTokenHealth has returned.
SweepDone(l) ==
    /\ ~Crashed
    /\ hcLoop[l].pc = "sweep"
    /\ \A t \in DOMAIN hcLoop[l].checks : hcLoop[l].checks[t].reported # "none"
    /\ hcLoop' = [hcLoop EXCEPT ![l].pc = "select", ![l].checks = EmptyMap]
    /\ UNCHANGED <<hcRest, tokens, running, stopChan, hcMutex, checkInterval, hcFault, noop,
                   probeBodyRead>>

\* Start, Stop and SetCheckInterval calls in any order, and the loops they spawn.
\* Nothing in the program recovers the panic of Stop: the process ends with it
\* (Crashed), and no goroutine takes another step.
NextProber ==
    \/ Start
    \/ StopClose
    \/ StopJoin
    \/ SetCheckInterval
    \/ \E l \in Loops :
          \/ LoopBegin(l)
          \/ LoopTick(l)
          \/ LoopQuit(l)
          \/ SweepDone(l)
          \/ \E t \in Universe :
                \/ ProbeAttempt(l, t)
                \/ ProbeReport(l, t)

SpecProber == InitProber /\ [][NextProber]_vars

\* The checkTokenHealth calls of the sweeps in progress.
Checks == {<<l, t>> \in Loops \X Universe : t \in DOMAIN hcLoop[l].checks}
CheckOf(x) == hcLoop[x[1]].checks[x[2]]

\* C22: in a sweep, a credential of the snapshot is reported healthy only when
\* one of its attempts was answered 200 or 403, and that attempt was its last;
\* it is reported unhealthy only after maxRetries attempts of which none was
\* answered 200 or 403; and the report is what the pool then holds for it.
C22_OneReport ==
    \A x \in Checks :
        LET c == CheckOf(x)
            t == x[2]
        IN  /\ c.tries <= maxRetries
            /\ c.answered # 0 => c.tries = c.answered
            /\ c.reported = "healthy" => c.answered # 0 /\ tokens[t].Healthy
            /\ c.reported = "unhealthy" =>
                  c.answered = 0 /\ c.tries = maxRetries /\ ~tokens[t].Healthy

\* A sweep in which one credential was reported healthy at its second attempt
\* and the other was reported unhealthy.
C22_Witness ==
    \E x, y \in Checks :
        /\ x[1] = y[1]
        /\ CheckOf(x).reported = "healthy" /\ CheckOf(x).tries = 2
        /\ CheckOf(y).reported = "unhealthy"

\* C23: at most one healthCheckLoop, and so at most one sweep, is alive at any
\* time, whatever Start calls are made while the checker is running.
C23_OneLoop == Cardinality(LiveLoops) <= 1

\* A Start call on a running checker has returned, and one loop is alive.
C23_Witness == noop = "Start" /\ running /\ Cardinality(LiveLoops) = 1

\* C24: a Stop call on a running checker does not fault, and when no Stop call
\* is in progress on a checker that is not running, no loop and no sweep is
\* alive: no report reaches the pool after Stop has returned.
C24_StopJoins ==
    /\ ~hcFault
    /\ (~running /\ hcMutex = "free") => wg = 0

\* C25: no probe reads the body of the upstream response.
C25_BodyUntouched == ~probeBodyRead

\* C26: a running checker has a loop alive, which sweeps again at the next tick
\* and so reports an unhealthy credential healthy once its probes are answered
\* 200 or 403.
C26_RunningSweeps == running => LiveLoops # {}

\* C28: the ticker of a loop that is alive has the period hc.checkInterval.
C28_SpacedByInterval ==
    \A l \in Loops : hcLoop[l].pc \in {"sweep", "select"} => hcLoop[l].ticker = checkInterval

\* ------------------------------------------------------------ POST /reload
\* A port that validateConfig refuses.
BadPort == 70000

\* What a configuration file can hold of JetbrainsTokens, BearerToken,
\* LoadBalanceStrategy, HealthCheckInterval, ServerPort and ServerHost; an absent
\* field, or no file at all, is the zero value; the files that occur at a reload
\* leave the bearer token and the host to the environment and the defaults, and
\* a file that names a strategy names no interval and no port.
\* And what JWT_TOKENS (or JWT_TOKEN) can hold; <<>> is "not set".
FileTokens == {<<>>} \cup DistinctLists(MaxList)
FileBearers == {<<>>}
Files ==
    {f \in [tokens : FileTokens, bearer : FileBearers, strategy : {"", Random},
            interval : {0} \cup Intervals, port : {0, DefaultPort, BadPort}, host : {""}] :
        f.strategy # "" => (f.interval = 0 /\ f.port = 0)}
EnvTokens == {l \in FileTokens : Len(l) <= 1}

\* The environment at a reload: JWT_TOKENS set or not; BEARER_TOKEN,
\* LOAD_BALANCE_STRATEGY, SERVER_PORT and SERVER_HOST not set ("" and 0).
Envs == [tokens : EnvTokens, bearer : {<<>>}, strategy : {""}, port : {0}, host : {""}]

\* mergeConfig: a field of the file replaces the manager's when it is not zero.
MergeConfig(cfg, other) ==
    [tokens |-> IF Len(other.tokens) > 0 THEN other.tokens ELSE cfg.tokens,
     bearer |-> IF other.bearer # <<>> THEN other.bearer ELSE cfg.bearer,
     interval |-> IF other.interval > 0 THEN other.interval ELSE cfg.interval,
     port |-> IF other.port > 0 THEN other.port ELSE cfg.port,
     strategy |-> IF other.strategy # "" THEN other.strategy ELSE cfg.strategy,
     host |-> IF other.host # "" THEN other.host ELSE cfg.host]

\* parsePort: the port of SERVER_PORT, 0 for the error.
parsePort(port) == IF port <= 0 \/ port > 65535 THEN 0 ELSE port

\* loadFromEnv: JWT_TOKENS replaces the tokens when it yields any, BEARER_TOKEN
\* and SERVER_HOST replace when set, LOAD_BALANCE_STRATEGY when it names a
\* strategy, SERVER_PORT when it parses to a port.
LoadFromEnv(cfg, env) ==
    [tokens |-> IF Len(env.tokens) > 0 THEN env.tokens ELSE cfg.tokens,
     bearer |-> IF env.bearer # <<>> THEN env.bearer ELSE cfg.bearer,
     strategy |-> IF env.strategy \in {RoundRobin, Random} THEN env.strategy ELSE cfg.strategy,
     interval |-> cfg.interval,
     port |-> IF parsePort(env.port) # 0 THEN parsePort(env.port) ELSE cfg.port,
     host |-> IF env.host # "" THEN env.host ELSE cfg.host]

\* validateConfig without its test of the port.
ValidateConfigAnyPort(cfg) ==
    IF Len(cfg.tokens) = 0 THEN "no JWT tokens configured"
    ELSE IF cfg.bearer = <<>> THEN "bearer token is required"
    ELSE ""

\* validateConfig: the error it returns, "" for nil.
ValidateConfig(cfg) ==
    IF Len(cfg.tokens) = 0 THEN "no JWT tokens configured"
    ELSE IF cfg.bearer = <<>> THEN "bearer token is required"
    ELSE IF cfg.port <= 0 \/ cfg.port > 65535 THEN "invalid server port"
    ELSE ""

\* Manager.LoadConfig: the file, the environment, the validation. The merged
\* configuration stays in the manager when the validation fails.
LoadConfig(cfg, file, env) ==
    LET merged == LoadFromEnv(MergeConfig(cfg, file), env)
    IN  [config |-> merged, err |-> ValidateConfig(merged)]

\* Manager.GetJWTTokens: the token strings, in order.
GetJWTTokens(cfg) == cfg.tokens

\* RefreshTokens that fills the map it finds.
RefreshTokensKeepOld(m, list, time) == FillMap(m, list, Len(list), time)

\* RefreshTokens, the whole call.
RefreshTokens(m, list, time) == FillMap(RefreshNewMap(m), list, Len(list), time)

\* ReloadConfig: its error ("" for nil), and the manager's configuration, the
\* pool's map and the checker's interval as it leaves them.
ReloadConfig(cm, cfg, file, env, m, interval, time) ==
    IF ~cm
    THEN [err |-> "config manager not initialized", config |-> cfg, tokens |-> m,
          checkInterval |-> interval]
    ELSE LET l == LoadConfig(cfg, file, env)
         IN  IF l.err # ""
             THEN [err |-> "failed to reload config", config |-> l.config, tokens |-> m,
                   checkInterval |-> interval]
             ELSE IF Len(GetJWTTokens(l.config)) = 0
             THEN [err |-> "no JWT tokens in reloaded config", config |-> l.config,
                   tokens |-> m, checkInterval |-> interval]
             ELSE [err |-> "", config |-> l.config,
                   tokens |-> RefreshTokens(m, GetJWTTokens(l.config), time),
                   checkInterval |-> IF l.config.interval > 0 THEN l.config.interval
                                     ELSE interval]

ReloadedMessage == "Configuration reloaded successfully"

\* The server after InitializeFromConfig and the first sweep: the pool and the
\* manager hold the configured tokens, the checker is running with the
\* configured interval and its loop waits in the select. Without a
\* configuration manager, the pool and checker are those of InitializeBalancer.
InitReload ==
    /\ \E list \in DistinctLists(MaxList) :
          /\ tokens = NewJWTBalancer(list, 0)
          /\ initList = list
          /\ lastKeys = ListSet(list)
          /\ configManager \in BOOLEAN
          /\ \E d \in Intervals :
                /\ managerConfig = IF configManager
                                   THEN [tokens |-> list, bearer |-> <<"k">>,
                                         strategy |-> RoundRobin, interval |-> d,
                                         port |-> DefaultPort, host |-> DefaultHost]
                                   ELSE NewManager
                /\ checkInterval = IF configManager THEN d ELSE DefaultInterval
    /\ counter = 0
    /\ strategy = RoundRobin
    /\ now = MaxTime
    /\ readers = {}
    /\ writer = NoProc
    /\ InitProcs
    /\ barred = {}
    /\ oldHealthy = {}
    /\ hist = <<>>
    /\ afterResponseRuns = FALSE
    /\ HttpIdle
    /\ SSEIdle
    /\ running = TRUE
    /\ stopChan = "open"
    /\ hcMutex = "free"
    /\ hcLoop = [l \in Loops |-> IF l = 1
                                 THEN [pc |-> "select", ticker |-> checkInterval,
                                       checks |-> EmptyMap]
                                 ELSE NoLoop]
    /\ hcFault = FALSE
    /\ noop = "none"
    /\ probeBodyRead = FALSE
    /\ reloadResp = NoResponse
    /\ reloadCount = 0
    /\ MainIdle
    /\ OutIdle

reloadRest == <<counter, strategy, now, lockVars, procVars, histVars, reqVars, httpVars, sseVars>>

\* The handler of POST /reload: the whole ReloadConfig call and the answer.
HandleReload ==
    /\ reloadCount < MaxReloads
    /\ CanLock
    /\ hcMutex = "free"
    /\ \E file \in Files, env \in Envs :
          LET r == ReloadConfig(configManager, managerConfig, file, env, tokens,
                                checkInterval, now)
          IN  /\ managerConfig' = r.config
              /\ tokens' = r.tokens
              /\ checkInterval' = r.checkInterval
              /\ reloadResp' = IF r.err # "" THEN [status |-> 500, body |-> r.err]
                               ELSE [status |-> 200, body |-> ReloadedMessage]
    /\ reloadCount' = reloadCount + 1
    /\ UNCHANGED <<reloadRest, running, stopChan, hcMutex, hcLoop, hcFault, noop, probeBodyRead,
                   configManager, flags, mainPc, mainCfg, credential, outLines>>

\* A client request reports its outcome for a credential to the pool: one whole
\* MarkTokenUnhealthy or MarkTokenHealthy call.
RequestOutcome ==
    /\ CanLock
    /\ \E t \in Universe, healthy \in BOOLEAN :
          /\ ~healthy /\ t \in DOMAIN tokens => tokens[t].ErrorCount < MaxErrors
          /\ tokens' = IF healthy THEN MarkTokenHealthy(tokens, t)
                       ELSE MarkTokenUnhealthy(tokens, t)
    /\ UNCHANGED <<reloadRest, hcVars, adminVars>>

NextReload ==
    \/ HandleReload
    \/ RequestOutcome

SpecReload == InitReload /\ [][NextReload]_vars

\* A step of the handler of POST /reload.
ReloadStep == reloadCount' # reloadCount

\* C27: a POST /reload that is answered 200 leaves in the pool exactly the
\* credentials of the configuration it loaded, each healthy with no errors,
\* answers with the message "Configuration reloaded successfully", and leaves
\* the checker running with the loop it had.
C27_ReloadStep ==
    (ReloadStep /\ reloadResp'.status = 200) =>
        /\ DOMAIN tokens' = ListSet(managerConfig'.tokens)
        /\ \A t \in DOMAIN tokens' : tokens'[t].Healthy /\ tokens'[t].ErrorCount = 0
        /\ reloadResp'.body = "Configuration reloaded successfully"
        /\ running' = running /\ hcLoop' = hcLoop /\ stopChan' = stopChan

C27_Reloaded == [][C27_ReloadStep]_vars

\* A reload was answered 200, the pool's credentials are no longer those it was
\* built with, and the checker is running with its loop.
C27_Witness ==
    /\ reloadCount > 0
    /\ reloadResp.status = 200
    /\ DOMAIN tokens # ListSet(initList)
    /\ running /\ LiveLoops = {1}

\* C29: a POST /reload made without a configuration manager, or whose loaded
\* configuration has no tokens, no bearer token or an invalid port, is answered
\* 500 with an error, and leaves the pool's map and the checker's interval as
\* they were.
C29_FailedStep ==
    (/\ ReloadStep
     /\ \/ ~configManager
        \/ Len(managerConfig'.tokens) = 0
        \/ managerConfig'.bearer = <<>>
        \/ managerConfig'.port <= 0
        \/ managerConfig'.port > 65535) =>
        /\ reloadResp'.status = 500
        /\ reloadResp'.body \notin {"", ReloadedMessage}
        /\ tokens' = tokens
        /\ checkInterval' = checkInterval

C29_FailedReload == [][C29_FailedStep]_vars

\* A reload was answered 500 although a configuration manager is there; the
\* pool still holds an unhealthy credential with its error count, and the
\* checker's interval is not the one the failed load left in the manager.
C29_Witness ==
    /\ reloadCount > 0
    /\ reloadResp.status = 500
    /\ configManager
    /\ \E t \in DOMAIN tokens : ~tokens[t].Healthy /\ tokens[t].ErrorCount > 0
    /\ managerConfig.interval # checkInterval

\* C37: for any sequence of Start and Stop calls, no Stop call faults (the quit
\* channel is closed at most once), and a checker that is running has an open
\* quit channel, so that the loop of its latest Start sweeps at every tick until
\* the next Stop.
C37_Reenterable ==
    /\ ~hcFault
    /\ running => stopChan = "open"

\* A translator has returned, and not because of a cancellation or a failed
\* read, from a body without a QuotaMetadata event.
ReturnedNoQuota ==
    /\ sseRet.returned
    /\ sseRet.err \notin {"ctx", "read error"}
    /\ FirstQuota = 0

\* The streaming translator returned nil, having sent one chunk for each Content
\* event of the body, no final chunk and no "data: [DONE]".
StreamEndsPlain ==
    /\ sseRet.err = ""
    /\ ContentChunks = ContentEvents(Len(upstream))
    /\ \A i \in 1..Len(out) : out[i] # DoneFrame /\ out[i].finish # "stop"

\* The buffered translator returned the response with the contents of the
\* Content events of the body and the usage of a spent amount of 0.
BufferedEndsDefault ==
    /\ sseRet.err = ""
    /\ sseRet.content = Flatten(ContentEvents(Len(upstream)))
    /\ sseRet.finish = "stop"
    /\ sseRet.usage.set
    /\ sseRet.usage.total = 0
    /\ sseRet.usage.completion = 0 - Len(sseRet.content)
    /\ sseRet.usage.prompt = 0 - Len(sseRet.content)

WritesPool(p) ==
    \/ pc[p] = "gt_locked" /\ HealthyKeys(tokens) # {}
    \/ pc[p] \in {"mu_locked", "mh_locked", "rf_locked", "rf_loop"}

\* The goroutine is in a section that reads or writes pool state.
AccessesPool(p) ==
    pc[p] \in {"gt_locked", "mu_locked", "mh_locked", "rf_locked", "rf_loop"}

\* C33: no goroutine is inside a section that writes mutable pool state (a healthy
\* flag, a last-used time, an error counter, the key collection, the random
\* source) while another goroutine is inside a section that reads or writes it.
C33_NoDataRace ==
    \A p, q \in Procs : (p # q /\ WritesPool(p)) => ~AccessesPool(q)

\* C35: under round-robin every successful Acquire moves the shared counter up by
\* exactly one, whatever other calls are in flight; no step lowers the counter;
\* the steps of a Refresh leave it as it is; and the index taken from the new
\* counter value lies in 0..n-1 for the n healthy entries that Acquire collected.
C35_CounterStep ==
    /\ counter' >= counter
    /\ \A p \in Procs :
          /\ (pc[p] = "gt_locked" /\ pc'[p] = "gt_done" /\ strategy = RoundRobin
                /\ ~res'[p].err /\ ~res'[p].panic) =>
                LET n == Cardinality(seen'[p])
                IN  /\ counter' = counter + 1
                    /\ n > 0
                    /\ RoundRobinIndex(counter', n) \in 0..(n - 1)
                    /\ res'[p].token \in seen'[p]
          /\ (pc[p] \in {"rf_locked", "rf_loop"} \/ pc'[p] \in {"rf_locked", "rf_loop"}) =>
                counter' = counter

C35_Counter == [][C35_CounterStep]_vars

\* A successful round-robin Acquire after earlier acquisitions moved the counter
\* and a Refresh changed the size of the pool, with another Acquire in flight.
C35_Witness ==
    \E p \in Procs :
        /\ Selected(p) /\ strategy = RoundRobin
        /\ counter >= 2
        /\ Cardinality(lastKeys) # Cardinality(ListSet(initList))
        /\ DOMAIN tokens = lastKeys
        /\ \E q \in Procs \ {p} : pc[q] \in {"gt_call", "gt_locked", "gt_done"}

\* C36: a step outside RefreshTokens' body keeps the key set, so Acquire and the two
\* reports leave the total count as it is; and in every state the healthy count
\* is the number of entries whose flag is set, between zero and the total count.
C36_KeysStep ==
    /\ (~ \E p \in Procs : pc[p] \in {"rf_locked", "rf_loop"}) =>
          /\ DOMAIN tokens' = DOMAIN tokens
          /\ GetTotalTokenCount(tokens') = GetTotalTokenCount(tokens)
    /\ GetHealthyTokenCount(tokens') = Cardinality(HealthyKeys(tokens'))
    /\ 0 <= GetHealthyTokenCount(tokens')
    /\ GetHealthyTokenCount(tokens') <= GetTotalTokenCount(tokens')

C36_Keys == [][C36_KeysStep]_vars

\* A report on a credential of the pool has run while an Acquire is in flight,
\* on a pool that holds both a healthy and an unhealthy entry.
C36_Witness ==
    \E p \in Procs :
        /\ pc[p] = "mu_done" /\ argTok[p] \in DOMAIN tokens
        /\ \E q \in Procs \ {p} : pc[q] = "gt_call"
        /\ 0 < GetHealthyTokenCount(tokens)
        /\ GetHealthyTokenCount(tokens) < GetTotalTokenCount(tokens)

\* C39: the report of a request that acquired its token before a Refresh leaves
\* the fresh entry the Refresh made for that token as it is: neither the healthy
\* flag nor the error counter of the entry changes.
C39_StaleStep ==
    \A p \in Procs :
        (pc[p] = "rq_answered" /\ pc'[p] = "rq_ret" /\ overlap[p]
            /\ reqTok[p] \in DOMAIN tokens) =>
            /\ tokens'[reqTok[p]].Healthy = tokens[reqTok[p]].Healthy
            /\ tokens'[reqTok[p]].ErrorCount = tokens[reqTok[p]].ErrorCount

HealthStrategy(cfg) == cfg.strategy

\* The strategy that the handler of GET /stats puts in its answer.
StatsStrategy(cfg) == cfg.strategy

\* C38: in every state the strategy in the answers of GET /health and GET /stats
\* is the strategy the pool selects by in GetToken, reloads that change
\* load_balance_strategy included.
C38_ReportedStrategy ==
    /\ HealthStrategy(managerConfig) = strategy
    /\ StatsStrategy(managerConfig) = strategy

\* ------------------------------------------------------------------ main
\* The command lines, configuration files and environments main is started
\* with: each flag given or not, each field of the file and each variable of the
\* environment set or not; the interval is left to the default.
Flags ==
    [p : {0, 9090}, h : {"", "127.0.0.1"}, c : {<<>>, <<"t1">>}, k : {<<>>, <<"k">>},
     s : {"", Random}]
MainFiles ==
    [tokens : {<<>>, <<"t2">>}, bearer : {<<>>, <<"k">>}, strategy : {""}, interval : {0},
     port : {0, 8081}, host : {"", "10.0.0.1"}]
MainEnvs ==
    [tokens : {<<>>}, bearer : {<<>>}, strategy : {""}, port : {0, 8082},
     host : {"", "10.0.0.2"}]

\* Manager.GetConfig: a copy of the configuration.
GetConfig(m) == m

\* applyCommandLineOverrides: the manager's configuration after SetJWTTokens,
\* SetBearerToken and SetLoadBalanceStrategy, and its local cfg, the copy from
\* GetConfig on which it sets ServerPort and ServerHost.
applyCommandLineOverrides(m, f) ==
    LET set == [m EXCEPT !.tokens = IF f.c # <<>> THEN f.c ELSE @,
                         !.bearer = IF f.k # <<>> THEN f.k ELSE @,
                         !.strategy = IF f.s \in {RoundRobin, Random} THEN f.s ELSE @]
        copy == GetConfig(set)
    IN  [manager |-> set,
         cfg |-> [copy EXCEPT !.port = IF f.p > 0 THEN f.p ELSE @,
                              !.host = IF f.h # "" THEN f.h ELSE @]]

\* The address main hands to e.Start: fmt.Sprintf("%s:%d", cfg.ServerHost, cfg.ServerPort).
addr == [host |-> mainCfg.host, port |-> mainCfg.port]

\* main after flag.Parse(): a new manager, no pool, no checker.
InitMain ==
    /\ tokens = EmptyMap
    /\ initList = <<>>
    /\ lastKeys = {}
    /\ counter = 0
    /\ strategy = RoundRobin
    /\ now = MaxTime
    /\ readers = {}
    /\ writer = NoProc
    /\ InitProcs
    /\ barred = {}
    /\ oldHealthy = {}
    /\ hist = <<>>
    /\ afterResponseRuns = FALSE
    /\ HttpIdle
    /\ SSEIdle
    /\ HcIdle
    /\ configManager = FALSE
    /\ managerConfig = NewManager
    /\ reloadResp = NoResponse
    /\ reloadCount = 0
    /\ flags \in Flags
    /\ mainPc = "parsed"
    /\ mainCfg = NewManager
    /\ OutIdle

mainRest ==
    <<counter, now, lockVars, procVars, histVars, reqVars, httpVars, sseVars, reloadResp,
      reloadCount, flags, stopChan, hcMutex, hcFault, noop, probeBodyRead, credential,
      outLines>>

\* configManager.LoadConfig(): its error is logged and main goes on.
MainLoadConfig ==
    /\ mainPc = "parsed"
    /\ \E file \in MainFiles, env \in MainEnvs :
          managerConfig' = LoadConfig(managerConfig, file, env).config
    /\ mainPc' = "loaded"
    /\ UNCHANGED <<mainRest, tokens, strategy, running, checkInterval, hcLoop, configManager,
                   mainCfg>>

\* applyCommandLineOverrides(configManager, port, host, jwtTokens, bearerToken, strategy):
\* the function's local cfg ends with the call.
MainOverrides ==
    /\ mainPc = "loaded"
    /\ managerConfig' = applyCommandLineOverrides(managerConfig, flags).manager
    /\ mainPc' = "overridden"
    /\ UNCHANGED <<mainRest, tokens, strategy, running, checkInterval, hcLoop, configManager,
                   mainCfg>>

\* HasJWTTokens, cfg := configManager.GetConfig() and the test of cfg.BearerToken;
\* log.Fatal ends the process.
MainCheck ==
    /\ mainPc = "overridden"
    /\ IF Len(managerConfig.tokens) = 0
       THEN mainPc' = "fatal" /\ UNCHANGED mainCfg
       ELSE /\ mainCfg' = GetConfig(managerConfig)
            /\ mainPc' = IF managerConfig.bearer = <<>> THEN "fatal" ELSE "checked"
    /\ UNCHANGED <<mainRest, tokens, strategy, running, checkInterval, hcLoop, configManager,
                   managerConfig>>

\* jetbrains.InitializeFromConfig(): LoadConfig once more, then the pool and the
\* started checker from the manager's configuration; its error is fatal.
MainInitialize ==
    /\ mainPc = "checked"
    /\ \E file \in MainFiles, env \in MainEnvs :
          LET l == LoadConfig(managerConfig, file, env)
              list == GetJWTTokens(l.config)
          IN  /\ managerConfig' = l.config
              /\ IF l.err # "" \/ Len(list) = 0
                 THEN /\ mainPc' = "fatal"
                      /\ UNCHANGED <<tokens, strategy, checkInterval, running, hcLoop>>
                 ELSE /\ mainPc' = "initialized"
                      /\ tokens' = NewJWTBalancer(list, now)
                      /\ strategy' = l.config.strategy
                      /\ checkInterval' = IF l.config.interval > 0 THEN l.config.interval
                                          ELSE checkInterval
                      /\ running' = TRUE
                      /\ hcLoop' = [hcLoop EXCEPT ![1].pc = "spawned"]
    /\ configManager' = TRUE
    /\ UNCHANGED <<mainRest, mainCfg>>

\* e.Start(addr): the server listens on addr.
MainStart ==
    /\ mainPc = "initialized"
    /\ mainPc' = "listening"
    /\ UNCHANGED <<mainRest, tokens, strategy, running, checkInterval, hcLoop, configManager,
                   managerConfig, mainCfg>>

NextMain ==
    \/ MainLoadConfig
    \/ MainOverrides
    \/ MainCheck
    \/ MainInitialize
    \/ MainStart

SpecMain == InitMain /\ [][NextMain]_vars

\* C34: a server started with -p listens on that port and one started with -h
\* listens on that host, whatever the environment, the file and the defaults say.
C34_FlagsWin ==
    mainPc = "listening" =>
        /\ flags.p > 0 => addr.port = flags.p
        /\ flags.h # "" => addr.host = flags.h

\* ---------------------------------------------------- what is written out
\* strings.Contains
Contains(s, sub) ==
    \E i \in 1..(Len(s) - Len(sub) + 1) : SubSeq(s, i, i + Len(sub) - 1) = sub

\* C32: when BearerAuth has answered a request 401, the log does not hold the
\* token the client presented after "Bearer ".
C32_TokenNotLogged ==
    (hpc = "done" /\ hStatus = 401 /\ ~hReached) =>
        LET token == TrimPrefix(hReq.auth, BearerPrefix)
        IN  token # <<>> => ~Contains(hLog, token)

\* ------------------------------------------------------ token previews
\* The lengths of the two previews, and the characters appended to them.
summaryLen == 20
logLen == 10
Ellipsis == <<".", ".", ".">>

\* The configured tokens: of every length up to one more than the longer preview.
Credentials == {[i \in 1..n |-> c] : n \in 1..(summaryLen + 1), c \in {"a", "b"}}

min(a, b) == IF a < b THEN a ELSE b

\* token[:min(len(token), n)] + "..."
TokenPreview(token, n) == SubSeq(token, 1, min(Len(token), n)) \o Ellipsis

\* The server holds one token; nothing is written yet. The pool, the checker and
\* the endpoints are as in the other specifications and do not move here.
InitOut ==
    /\ tokens = EmptyMap
    /\ initList = <<>>
    /\ lastKeys = {}
    /\ counter = 0
    /\ strategy = RoundRobin
    /\ now = MaxTime
    /\ readers = {}
    /\ writer = NoProc
    /\ InitProcs
    /\ barred = {}
    /\ oldHealthy = {}
    /\ hist = <<>>
    /\ afterResponseRuns = FALSE
    /\ HttpIdle
    /\ SSEIdle
    /\ HcIdle
    /\ configManager = TRUE
    /\ managerConfig = NewManager
    /\ reloadResp = NoResponse
    /\ reloadCount = 0
    /\ MainIdle
    /\ credential \in Credentials
    /\ outLines = {}

outRest ==
    <<poolVars, lockVars, procVars, histVars, reqVars, httpVars, sseVars, hcVars, configManager,
      managerConfig, reloadResp, reloadCount, flags, mainPc, mainCfg, credential>>

\* GET /config: the token_preview of GetConfigSummary.
GetConfigSummary ==
    /\ outLines' = outLines \cup
           {[by |-> "GetConfigSummary", text |-> TokenPreview(credential, summaryLen)]}
    /\ UNCHANGED outRest

\* The line MarkTokenUnhealthy prints.
MarkTokenUnhealthyPrintf ==
    /\ outLines' = outLines \cup
           {[by |-> "MarkTokenUnhealthy", text |-> TokenPreview(credential, logLen)]}
    /\ UNCHANGED outRest

\* The line MarkTokenHealthy prints.
MarkTokenHealthyPrintf ==
    /\ outLines' = outLines \cup
           {[by |-> "MarkTokenHealthy", text |-> TokenPreview(credential, logLen)]}
    /\ UNCHANGED outRest

\* The line checkTokenHealth logs for a token that failed its probe.
checkTokenHealthPrintf ==
    /\ outLines' = outLines \cup
           {[by |-> "checkTokenHealth", text |-> TokenPreview(credential, logLen)]}
    /\ UNCHANGED outRest

\* The line SendJetbrainsRequest logs on a 401.
SendJetbrainsRequestPrintf ==
    /\ outLines' = outLines \cup
           {[by |-> "SendJetbrainsRequest", text |-> TokenPreview(credential, logLen)]}
    /\ UNCHANGED outRest

NextOut ==
    \/ GetConfigSummary
    \/ MarkTokenUnhealthyPrintf
    \/ MarkTokenHealthyPrintf
    \/ checkTokenHealthPrintf
    \/ SendJetbrainsRequestPrintf

SpecOut == InitOut /\ [][NextOut]_vars

\* p is s without at least its last character.
IsStrictPrefix(p, s) == Len(p) < Len(s) /\ SubSeq(s, 1, Len(p)) = p

\* C31: whatever the length of the credential, every text written of it by the
\* /config summary and by the log lines of the pool, the prober and the request
\* path is a strict prefix of the credential followed by an ellipsis.
C31_OnlyPrefix ==
    \A l \in outLines :
        \E n \in 0..Len(credential) :
            /\ IsStrictPrefix(SubSeq(credential, 1, n), credential)
            /\ l.text = SubSeq(credential, 1, n) \o Ellipsis

====
